---- MODULE Spec2Model ----
(***************************************************************************)
(* A model of the js-fea core: cell canonicalisation (core.utils),         *)
(* ElementVector assembly (system.vector), the GCellSet constructors and   *)
(* the reference shape functions (gcellset).                               *)
(*                                                                         *)
(* JavaScript arrays are modelled as sequences; a 0-based JavaScript index *)
(* i is position i+1 of the sequence.                                      *)
(***************************************************************************)
EXTENDS Integers, Sequences, FiniteSets, TLC

VARIABLES
  \* ---- core.utils: one cell and the results of the calls made on it
  cell,        \* the caller's connectivity list
  offset,      \* the rotation offset the caller uses
  rotated,     \* rotateLeft(cell, offset), or NoCell before the call
  normCell,    \* normalizedCell(cell), or NoCell before the call
  normRot,     \* normalizedCell(rotated), or NoCell before the call
  normTwice,   \* normalizedCell(normCell), or NoCell before the call
  \* ---- system.vector: one SparseSystemVector and the calls made on it
  dim,          \* this._dim
  evs,          \* this._evs: the source of ElementVectors, with its cursor
  sparseVector, \* this._sparseVector: NullVector, or the assembled vector
  allocs,       \* how many SparseVector objects have been constructed
  nexts,        \* how many times next() was called on the iterator drained
  hasNexts,     \* how many times hasNext() was called on the iterator drained
  calls,        \* how many calls were made on the SparseSystemVector
  ret,          \* what the last call did and returned
  \* ---- gcellset: the caller's set and the last set asked for
  gcs,          \* the GCellSet the caller works on, or NoSet
  made,         \* the last construction: its options, whether it threw, its object
  kept,         \* whether the caller has gone on with a derived set
  \* ---- gcellset: one evaluation of the shape functions
  elemType,     \* the element type: P1, L2, Q4 or H8
  point,        \* paramCoords: the parametric point
  bfunVal,      \* bfun(paramCoords), or NotEvaluated before the call
  bfundparVal,  \* bfundpar(paramCoords), or NotEvaluated before the call
  \* ---- gcellset: one set, one Jacobian matrix and one call of a Jacobian
  jacSet,       \* the GCellSet the Jacobian is asked of
  jacJ,         \* J: the Jacobian matrix handed to the call
  jacFnValue,   \* what the set's otherDimension function returns, if it is one
  jacRet,       \* the call made, and what it returned or threw
  \* ---- gcellset: one set and one resolution of a neighbouring element type
  chainSet,     \* the GCellSet asked
  chainRet,     \* the call made, and the constructor it returned, or that it threw
  \* ---- gcellset: one set, one node set, one box and one call of boxSelect
  boxSet,       \* the GCellSet asked
  boxFens,      \* fens: the first argument
  boxOptions,   \* options: the second argument, but for the entries of bounds
  boxBounds,    \* the entries of the array options.bounds
  boxRet,       \* the call made: the bounds it was given, and what it returned
  \* ---- gcellset: one set, its clone, and what is done with the clone
  cloneSet,     \* g: the GCellSet that is cloned
  cloneFnKind,  \* what g's otherDimension function does without arguments
  cloneMade,    \* g.clone(): the construction it made
  cloneShares,  \* whether the clone's Topology is the very object g holds
  cloneOrig,    \* g's Topology at the time of the clone
  cloneEq,      \* what the last call of equals was compared with, and what it returned
  \* ---- gcellset: one set, one call of subset, and a write into the result
  subSet,       \* the GCellSet that subset is called on
  subIndices,   \* indices: the argument of the call
  subMade,      \* subset(indices): the construction it made
  subShares,    \* whether the cells of the result are the very arrays of the receiver
  subOrig,      \* the receiver's Topology at the time of the call
  \* ---- core.utils: the environment, one contract, and the calls made on it
  env,          \* exports._env
  ctr,          \* the contract: what defineContract returned, and the variables it closes over
  ctrRet        \* the last call of the contract: its input, and whether it threw

cellVars == <<cell, offset, rotated, normCell, normRot, normTwice>>
asmVars == <<dim, evs, sparseVector, allocs, nexts, hasNexts, calls, ret>>
gcsVars == <<gcs, made, kept>>
bfunVars == <<elemType, point, bfunVal, bfundparVal>>
jacVars == <<jacSet, jacJ, jacFnValue, jacRet>>
chainVars == <<chainSet, chainRet>>
boxVars == <<boxSet, boxFens, boxOptions, boxBounds, boxRet>>
cloneVars == <<cloneSet, cloneFnKind, cloneMade, cloneShares, cloneOrig, cloneEq>>
subVars == <<subSet, subIndices, subMade, subShares, subOrig>>
ctrVars == <<env, ctr, ctrRet>>
restVars == <<jacVars, chainVars, boxVars, cloneVars, subVars, ctrVars>>
vars == <<cell, offset, rotated, normCell, normRot, normTwice,
          dim, evs, sparseVector, allocs, nexts, hasNexts, calls, ret,
          gcs, made, kept, elemType, point, bfunVal, bfundparVal,
          jacSet, jacJ, jacFnValue, jacRet, chainSet, chainRet,
          boxSet, boxFens, boxOptions, boxBounds, boxRet,
          cloneSet, cloneFnKind, cloneMade, cloneShares, cloneOrig, cloneEq,
          subSet, subIndices, subMade, subShares, subOrig, env, ctr, ctrRet>>

(***************************************************************************)
(* Bounds.                                                                 *)
(***************************************************************************)
MaxCellLen == 4      \* longest connectivity list drawn
MaxNode == 3         \* node indices are drawn from 0..MaxNode
MaxOffset == 5       \* rotation offsets are drawn from -MaxOffset..MaxOffset
MaxDim == 2          \* the global dimension of the SparseSystemVector
FoldDim == 1         \* the global dimension when lists are assembled in every order
MaxEvs == 2          \* most ElementVectors in one source
MaxEntries == 3      \* most local entries in one source, all ElementVectors together
MaxCalls == 2        \* most calls made on one SparseSystemVector
MaxCells == 2        \* most cells in a connectivity list handed to a constructor
MaxLayers == 2       \* most layers asked of extrude
GridBits == 3        \* parametric coordinates are multiples of 1 / 2^GridBits
MaxSide == 3         \* most rows and most columns of a Jacobian matrix
MaxJEntry == 2       \* the entries of a Jacobian matrix are drawn from 1..MaxJEntry
MaxCoord == 2        \* node coordinates and box bounds are drawn from 0..MaxCoord
MaxIndices == 3      \* most indices handed to subset
MaxLen == 2          \* longest vector, and most rows and columns of a matrix, handed to a contract

(***************************************************************************)
(* JavaScript numbers.  A number of the model is an IEEE-754 double of the *)
(* form (big * 2^53 + small) / 2^exp with |small| far below 2^52, or NaN.   *)
(* A double holds 53 significant bits: an integer significand             *)
(* big * 2^53 + small is kept as it is when big = 0, and is else rounded   *)
(* to a multiple of 2, 4, ... (the nearest one, the even one on a tie).    *)
(***************************************************************************)
\* The record of (b * 2^53 + s) / 2^e with the exponent as small as it can be.
RECURSIVE Dyadic(_, _, _)
Dyadic(b, s, e) ==
  IF e > 0 /\ b % 2 = 0 /\ s % 2 = 0 THEN Dyadic(b \div 2, s \div 2, e - 1)
  ELSE [nan |-> FALSE, big |-> b, small |-> s, exp |-> e]

Num(b, s) == Dyadic(b, s, 0)
NaN == [nan |-> TRUE, big |-> 0, small |-> 0, exp |-> 0]
Zero == Num(0, 0)

RECURSIVE Pow2(_)
Pow2(n) == IF n = 0 THEN 1 ELSE 2 * Pow2(n - 1)

RECURSIVE Log2Floor(_)
Log2Floor(h) == IF h <= 1 THEN 0 ELSE 1 + Log2Floor(h \div 2)

\* The multiple of ulp nearest to l, the even multiple on a tie.
RoundToMultiple(l, ulp) ==
  LET q == l \div ulp
      r == l % ulp
  IN IF 2 * r < ulp THEN q * ulp
     ELSE IF 2 * r > ulp THEN (q + 1) * ulp
     ELSE IF q % 2 = 0 THEN q * ulp ELSE (q + 1) * ulp

\* The 53-bit significand nearest to h * 2^53 + l, for h >= 0, as <<big, small>>.
RoundPositive(h, l) ==
  IF h = 0 THEN <<0, l>>
  ELSE LET k == Log2Floor(h)
           ulp == IF l < 0 /\ h = Pow2(k) THEN Pow2(k) ELSE Pow2(k + 1)
       IN <<h, RoundToMultiple(l, ulp)>>

\* The double nearest to the exact value (h * 2^53 + l) / 2^e.
RoundToDouble(h, l, e) ==
  IF h >= 0 THEN LET r == RoundPositive(h, l) IN Dyadic(r[1], r[2], e)
  ELSE LET r == RoundPositive(-h, -l) IN Dyadic(-r[1], -r[2], e)

\* a + b on JavaScript numbers.
NumAdd(a, b) ==
  IF a.nan \/ b.nan THEN NaN
  ELSE LET e == IF a.exp >= b.exp THEN a.exp ELSE b.exp
           fa == Pow2(e - a.exp)
           fb == Pow2(e - b.exp)
       IN RoundToDouble(a.big * fa + b.big * fb, a.small * fa + b.small * fb, e)

\* -a on JavaScript numbers.
NumNeg(a) == IF a.nan THEN NaN ELSE Dyadic(-a.big, -a.small, a.exp)

\* a - b on JavaScript numbers.
NumSub(a, b) == NumAdd(a, NumNeg(b))

\* a * b on JavaScript numbers of which at most one reaches 2^53 in magnitude.
NumMul(a, b) ==
  IF a.nan \/ b.nan THEN NaN
  ELSE IF a.big = 0
    THEN RoundToDouble(b.big * a.small, b.small * a.small, a.exp + b.exp)
    ELSE RoundToDouble(a.big * b.small, a.small * b.small, a.exp + b.exp)

(***************************************************************************)
(* core.utils                                                              *)
(***************************************************************************)
\* A value no call returns: marks a result that has not been computed.
NoCell == <<-1>>

\* JavaScript's % : the remainder takes the sign of the dividend.
JsRem(a, b) == IF a >= 0 THEN a % b ELSE -((-a) % b)

\* rotateLeft with the element picked one place too far.
rotateLeft_shifted(arr, off) ==
  LET len == Len(arr) IN
  IF len = 0 THEN <<>>
  ELSE LET i == (len + JsRem(off, len)) % len IN
       [j \in 1..len |-> arr[((i + j) % len) + 1]]

\* rotateLeft(arr, offset): out[j] = arr[(i+j) % len], i = (len + offset % len) % len.
\* For len = 0 the loop body never runs and the result is the empty array.
rotateLeft(arr, off) ==
  LET len == Len(arr) IN
  IF len = 0 THEN <<>>
  ELSE LET i == (len + JsRem(off, len)) % len IN
       [j \in 1..len |-> arr[((i + (j - 1)) % len) + 1]]

\* The accumulator minIndex starts its reduction with: {value: Infinity, index: -1}.
MinInit == [inf |-> TRUE, value |-> 0, index |-> -1]

\* One step of the reduction with the comparison turned into <=.
MinStep_lastMin(sofar, x, i) ==
  IF sofar.inf \/ x <= sofar.value
    THEN [inf |-> FALSE, value |-> x, index |-> i]
    ELSE sofar

\* One step of the reduction with the comparison reversed.
MinStep_reversed(sofar, x, i) ==
  IF (~sofar.inf) /\ x > sofar.value
    THEN [inf |-> FALSE, value |-> x, index |-> i]
    ELSE sofar

\* One step of the reduction: if (x < sofar.value) { value = x; index = i }.
MinStep(sofar, x, i) ==
  IF sofar.inf \/ x < sofar.value
    THEN [inf |-> FALSE, value |-> x, index |-> i]
    ELSE sofar

RECURSIVE MinReduce(_, _, _)
MinReduce(vec, k, sofar) ==
  IF k > Len(vec) THEN sofar
  ELSE MinReduce(vec, k + 1, MinStep(sofar, vec[k], k - 1))

\* minIndex(vec) without a comparator: the 0-based index of the first smallest
\* entry, -1 for the empty array.
minIndex(vec) == MinReduce(vec, 1, MinInit).index

\* normalizedCell(conn) = rotateLeft(conn, minIndex(conn)).
normalizedCell(conn) == rotateLeft(conn, minIndex(conn))

RECURSIVE SeqsUpTo(_, _)
SeqsUpTo(S, n) ==
  IF n = 0 THEN {<<>>}
  ELSE LET shorter == SeqsUpTo(S, n - 1) IN
       shorter \cup {Append(s, x) : s \in {t \in shorter : Len(t) = n - 1}, x \in S}

Cells == SeqsUpTo(0..MaxNode, MaxCellLen)
Offsets == (-MaxOffset)..MaxOffset


(***************************************************************************)
(* system.vector                                                           *)
(***************************************************************************)
\* What a JavaScript variable that should hold an array holds: an array, or
\* undefined.
Arr(s) == [isArray |-> TRUE, items |-> s]
Undefined == [isArray |-> FALSE, items |-> <<>>]

\* new ElementVector(vec, eqnums): both arguments are stored unchecked.
ElementVector(vec, eqnums) == [vector |-> vec, eqnums |-> eqnums]

\* core.numeric's SparseVector: new SparseVector([], dim), at, set_ and toFull.
\* The object carries the number of its allocation as its identity; the
\* entries are kept under their 0-based index.
NullVector == [id |-> 0, dim |-> 0, data |-> <<>>]
NewSparseVector(id, d) == [id |-> id, dim |-> d, data |-> <<>>]
SparseAt(sv, idx) == IF idx \in DOMAIN sv.data THEN sv.data[idx] ELSE Zero
SparseSet(sv, idx, v) ==
  [sv EXCEPT !.data = [i \in (DOMAIN sv.data) \cup {idx} |->
                         IF i = idx THEN v ELSE sv.data[i]]]
SparseToFull(sv) == [p \in 1..sv.dim |-> SparseAt(sv, p - 1)]

\* vec[i] for a 0-based i: past the end it is undefined, which + turns into NaN.
ValueAt(vec, i) == IF i + 1 <= Len(vec.items) THEN vec.items[i + 1] ELSE NaN

\* The new entry with the old one thrown away.
Accumulate_overwrite(was, val) == val

\* The new entry of the global vector: was + val.
Accumulate(was, val) == NumAdd(was, val)

\* The global index an equation number goes to, off by one.
GlobalIndex_noShift(en) == en

\* The global index an equation number goes to: en - 1.
GlobalIndex(en) == en - 1

\* The callback of ens.forEach for the local index i.  st is the run so far:
\* the vector being built, the set_ calls made, and whether the run threw.
ScatterEntry(st, vec, en, i) ==
  IF st.threw \/ en = 0 THEN st
  ELSE IF ~vec.isArray THEN [st EXCEPT !.threw = TRUE]
  ELSE LET idx == GlobalIndex(en)
           was == SparseAt(st.dest, idx)
       IN [st EXCEPT !.dest = SparseSet(st.dest, idx, Accumulate(was, ValueAt(vec, i))),
                     !.acc = @ + 1]

RECURSIVE ScatterFrom(_, _, _, _)
ScatterFrom(st, vec, ens, k) ==
  IF k > Len(ens) THEN st
  ELSE ScatterFrom(ScatterEntry(st, vec, ens[k], k - 1), vec, ens, k + 1)

\* The loop body for one ElementVector: ens.forEach throws when eqnums is not
\* an array.
ScatterElement(st, ev) ==
  IF ~ev.eqnums.isArray THEN [st EXCEPT !.threw = TRUE]
  ELSE ScatterFrom(st, ev.vector, ev.eqnums.items, 1)

\* while (sources.hasNext()) { ev = sources.next(); ... } on an iterator over
\* items whose cursor is st.pos.
RECURSIVE Drain(_, _)
Drain(items, st) ==
  IF st.threw THEN st
  ELSE IF st.pos >= Len(items) THEN [st EXCEPT !.hasNexts = @ + 1]
  ELSE Drain(items,
             ScatterElement([st EXCEPT !.hasNexts = @ + 1, !.nexts = @ + 1,
                                       !.pos = @ + 1],
                            items[st.pos + 1]))

\* How a run of _assemble_ starts: a new SparseVector, the cursor of the
\* iterator that will be drained.
RunStart(id, d, pos) ==
  [dest |-> NewSparseVector(id, d), acc |-> 0, threw |-> FALSE,
   pos |-> pos, nexts |-> 0, hasNexts |-> 0]

\* _assemble_: an iterator is drained from where it stands, an array through a
\* new iterator from iteratorFromList, anything else throws.
Assemble(id, d, source) ==
  IF source.kind = "iterator" THEN Drain(source.items, RunStart(id, d, source.pos))
  ELSE IF source.kind = "array" THEN Drain(source.items, RunStart(id, d, 0))
  ELSE [RunStart(id, d, 0) EXCEPT !.threw = TRUE]

\* sparseVector() assembles on every call.
NeedsAssemble_always(sv) == TRUE

\* sparseVector(): this._sparseVector === null.
NeedsAssemble(sv) == sv = NullVector

NoCall == [op |-> "none", threw |-> FALSE, assembled |-> FALSE, acc |-> 0,
           sv |-> NullVector, full |-> <<>>]

\* The state after sparseVector() and what it returned (ret.full is filled in
\* by toFull).
SparseVectorCall(op) ==
  IF NeedsAssemble(sparseVector)
    THEN LET run == Assemble(allocs + 1, dim, evs) IN
         /\ allocs' = allocs + 1
         /\ nexts' = nexts + run.nexts
         /\ hasNexts' = hasNexts + run.hasNexts
         /\ evs' = IF evs.kind = "iterator" THEN [evs EXCEPT !.pos = run.pos] ELSE evs
         /\ sparseVector' = IF run.threw THEN sparseVector ELSE run.dest
         /\ ret' = [op |-> op, threw |-> run.threw, assembled |-> TRUE,
                    acc |-> run.acc,
                    sv |-> IF run.threw THEN NullVector ELSE run.dest,
                    full |-> IF run.threw \/ op # "toFull" THEN <<>>
                             ELSE SparseToFull(run.dest)]
    ELSE /\ UNCHANGED <<allocs, nexts, hasNexts, evs, sparseVector>>
         /\ ret' = [op |-> op, threw |-> FALSE, assembled |-> FALSE, acc |-> 0,
                    sv |-> sparseVector,
                    full |-> IF op = "toFull" THEN SparseToFull(sparseVector)
                             ELSE <<>>]

\* The numbers ElementVectors carry: 1, 2 and 2^53.
VecVals == {Num(0, 1), Num(0, 2), Num(1, 0)}

\* An ElementVector is well formed, as the data model describes it, when its
\* vector and eqnums are arrays of one length.
IsWellFormed(ev) ==
  /\ ev.vector.isArray
  /\ ev.eqnums.isArray
  /\ Len(ev.vector.items) = Len(ev.eqnums.items)

\* The ways an ElementVector passed to the constructor can be malformed:
\* eqnums or vector is not an array, or one array is shorter than the other.
Defects == {"noEqnums", "noVector", "shortVector", "shortEqnums"}

\* The ElementVector a caller builds from a vector and equation numbers of one
\* length, with the given defect.
BuildEV(v, e, defect) ==
  IF defect = "noEqnums" THEN ElementVector(Arr(v), Undefined)
  ELSE IF defect = "noVector" THEN ElementVector(Undefined, Arr(e))
  ELSE IF defect = "shortVector" THEN ElementVector(Arr(SubSeq(v, 1, Len(v) - 1)), Arr(e))
  ELSE IF defect = "shortEqnums" THEN ElementVector(Arr(v), Arr(SubSeq(e, 1, Len(e) - 1)))
  ELSE ElementVector(Arr(v), Arr(e))

\* A shape says how many local entries each ElementVector of a source has and
\* which defect, if any: at most n ElementVectors with at most w entries in
\* all, at most one of them defective, a defective one having an entry.
RECURSIVE Shapes(_, _, _)
Shapes(n, w, defects) ==
  IF n = 0 THEN {<<>>}
  ELSE {<<>>} \cup
       UNION {{<<[len |-> p[1], defect |-> p[2]]>> \o rest :
                 rest \in Shapes(n - 1, w - p[1],
                                  IF p[2] = "none" THEN defects ELSE {})}
              : p \in {q \in (0..w) \X (defects \cup {"none"}) :
                         q[2] = "none" \/ q[1] >= 1}}

RECURSIVE ShapeTotal(_)
ShapeTotal(shape) ==
  IF Len(shape) = 0 THEN 0 ELSE Head(shape).len + ShapeTotal(Tail(shape))

\* The ElementVectors of a shape, filled from the entries v (values) and e
\* (equation numbers) starting after the first `used` entries.
RECURSIVE BuildList(_, _, _, _)
BuildList(shape, v, e, used) ==
  IF Len(shape) = 0 THEN <<>>
  ELSE LET m == Head(shape).len IN
       <<BuildEV(SubSeq(v, used + 1, used + m), SubSeq(e, used + 1, used + m),
                 Head(shape).defect)>>
       \o BuildList(Tail(shape), v, e, used + m)

\* The source is an array or an iterator (kinds) over a list of one of the
\* given shapes with values from vals and equation numbers from 0..d.
SourceIs(source, d, shapes, vals, kinds) ==
  \E shape \in shapes :
    \E v \in [1..ShapeTotal(shape) -> vals] :
      \E e \in [1..ShapeTotal(shape) -> 0..d] :
        \E k \in kinds :
          source = [kind |-> k, items |-> BuildList(shape, v, e, 0), pos |-> 0]
(***************************************************************************)
(* geometry.topology.  A Topology holds its manifold dimension, its family *)
(* label and its maximal cells; the size of the cells of a dimension is    *)
(* the one that the family of the label gives to that dimension.           *)
(***************************************************************************)
Families == {"P1L2T3T4", "P1L3T6T10", "P1L2Q4H8", "P1L3Q8H20"}

\* Topology.FAMILY[family].cellTypes: the chain of element types of a family.
FamilyCellTypes(family) ==
  CASE family = "P1L2T3T4" -> <<"P1", "L2", "T3", "T4">>
    [] family = "P1L3T6T10" -> <<"P1", "L3", "T6", "T10">>
    [] family = "P1L2Q4H8" -> <<"P1", "L2", "Q4", "H8">>
    [] OTHER -> <<"P1", "L3", "Q8", "H20">>

\* The number of nodes of a cell of each dimension 0..3 of a family.
FamilyCellSizes(family) ==
  CASE family = "P1L2T3T4" -> <<1, 2, 3, 4>>
    [] family = "P1L3T6T10" -> <<1, 3, 6, 10>>
    [] family = "P1L2Q4H8" -> <<1, 2, 4, 8>>
    [] OTHER -> <<1, 3, 8, 20>>

Topology(conn, d, family) ==
  [kind |-> "Topology", dim |-> d, family |-> family, cells |-> conn]

\* What a variable holds in place of a Topology: undefined, null, or an
\* object that is not an instance of Topology.
UndefinedTopology == 
  [kind |-> "undefined", dim |-> -1, family |-> "", cells |-> <<>>]
NullTopology == 
  [kind |-> "null", dim |-> -1, family |-> "", cells |-> <<>>]
NotATopology == 
  [kind |-> "object", dim |-> -1, family |-> "", cells |-> <<>>]

getDim(t) == t.dim
getFamilyType(t) == t.family
\* getCellSizeInDim(d): the size that the family of the Topology gives to
\* the cells of dimension d.
getCellSizeInDim(t, d) == FamilyCellSizes(getFamilyType(t))[d + 1]
getMaxCells(t) == t.cells
TopologyClone(t) == t

\* hypercube(conn, d): the Topology of the point-curve-quad-hex family over
\* conn; a cell of another size than 2^d is a contract violation.
hypercube(conn, d) ==
  [threw |-> \E k \in 1..Len(conn) : Len(conn[k]) # Pow2(d),
   value |-> Topology(conn, d, "P1L2Q4H8")]

\* The facets of one cell of dimension d: the end points of a curve, the
\* four edges of a quad in cyclic order, the six faces of a hex.
Facets(c, d) ==
  CASE d = 1 -> << <<c[1]>>, <<c[2]>> >>
    [] d = 2 -> << <<c[1], c[2]>>, <<c[2], c[3]>>, <<c[3], c[4]>>, <<c[4], c[1]>> >>
    [] d = 3 -> << <<c[1], c[4], c[3], c[2]>>, <<c[5], c[6], c[7], c[8]>>,
                   <<c[1], c[2], c[6], c[5]>>, <<c[2], c[3], c[7], c[6]>>,
                   <<c[3], c[4], c[8], c[7]>>, <<c[4], c[1], c[5], c[8]>> >>
    [] OTHER -> <<>>

NodesOf(c) == {c[i] : i \in 1..Len(c)}

RECURSIVE Flatten(_)
Flatten(lists) ==
  IF lists = <<>> THEN <<>> ELSE Head(lists) \o Flatten(Tail(lists))

AllFacets(t) == Flatten([k \in 1..Len(t.cells) |-> Facets(t.cells[k], t.dim)])

\* boundaryConn(): the facets that belong to exactly one maximal cell, each
\* in its canonical form.
boundaryConn(t) ==
  LET all == AllFacets(t)
      once(k) == \A j \in 1..Len(all) : j # k => NodesOf(all[j]) # NodesOf(all[k])
      keep == SelectSeq([k \in 1..Len(all) |-> <<k, all[k]>>], LAMBDA p : once(p[1]))
  IN [k \in 1..Len(keep) |-> normalizedCell(keep[k][2])]

SetMax(S) == CHOOSE m \in S : \A x \in S : x <= m

\* The number of points of a Topology whose nodes are numbered from 0.
NumOfPoints(t) ==
  IF t.cells = <<>> THEN 0
  ELSE 1 + SetMax(UNION {NodesOf(t.cells[k]) : k \in 1..Len(t.cells)})

\* The cell that stitches cell c of layer l to the same cell of layer l + 1.
ExtrudedCell(c, d, l, nn) ==
  LET lower == [i \in 1..Len(c) |-> c[i] + l * nn]
      upper == [i \in 1..Len(c) |-> c[i] + (l + 1) * nn]
  IN IF d = 1 THEN <<lower[1], lower[2], upper[2], upper[1]>> ELSE lower \o upper

\* extrude(flags): one layer of stitched cells for every flag that is true;
\* a stitched cell has the nodes of two cells.
TopologyExtrude(t, flags) ==
  LET nn == NumOfPoints(t)
      layer(l) == IF flags[l]
                  THEN [k \in 1..Len(t.cells) |-> ExtrudedCell(t.cells[k], t.dim, l - 1, nn)]
                  ELSE <<>>
  IN [kind |-> "Topology", dim |-> t.dim + 1, family |-> t.family,
      cells |-> Flatten([l \in 1..Len(flags) |-> layer(l)])]

(***************************************************************************)
(* gcellset: the constructors                                              *)
(***************************************************************************)
Types == {"P1", "L2", "Q4", "H8"}

\* GCellSetManifold0..3.prototype.dim
TypeDim(T) == CASE T = "P1" -> 0 [] T = "L2" -> 1 [] T = "Q4" -> 2 [] OTHER -> 3

\* P1, L2, Q4, H8 .prototype.cellSize
TypeCellSize(T) == CASE T = "P1" -> 1 [] T = "L2" -> 2 [] T = "Q4" -> 4 [] OTHER -> 8

\* The options object handed to a constructor.  A JavaScript value that is
\* no list, no Topology, no boolean or no number is written as the string
\* that names it.
Options(hasConn, conn, topo, axisSymm, otherDimension) ==
  [hasConn |-> hasConn, conn |-> conn, topology |-> topo,
   axisSymm |-> axisSymm, otherDimension |-> otherDimension]

NoOptions == Options(FALSE, <<>>, UndefinedTopology, "undefined", "undefined")

\* `this` before the GCellSet constructor has assigned any field.
Unbuilt(T) ==
  [type |-> T, id |-> "undefined", topology |-> UndefinedTopology,
   axisSymm |-> "undefined", otherDimension |-> "undefined"]

NoSet == Unbuilt("none")

\* isNumber(x) || isFunction(x) ? x : 1.0
OtherDimensionOf(x) == IF x \in {"2", "function"} THEN x ELSE "1"

\* isAssigned(x) ? !!x : false
AxisSymmOf(x) == IF x \in {"true", "1"} THEN "true" ELSE "false"

CellSizeMismatch(topo, T) ==
  getCellSizeInDim(topo, getDim(topo)) # TypeCellSize(T)

DimMismatch(topo, T) == getDim(topo) # TypeDim(T)

\* GCellSet.call(this, options) for `this` of type T: whether it threw, and
\* `this` as the call left it.
GCellSet(T, options) ==
  IF options.topology.kind # "Topology"
  THEN [threw |-> TRUE, obj |-> Unbuilt(T)]
  ELSE LET topo == options.topology
           fresh == [type |-> T, id |-> "null", topology |-> NullTopology,
                     axisSymm |-> AxisSymmOf(options.axisSymm),
                     otherDimension |-> OtherDimensionOf(options.otherDimension)]
       IN IF CellSizeMismatch(topo, T) THEN [threw |-> TRUE, obj |-> fresh]
          ELSE IF DimMismatch(topo, T) THEN [threw |-> TRUE, obj |-> fresh]
          ELSE [threw |-> FALSE,
                obj |-> [fresh EXCEPT !.id = "uuid", !.topology = topo]]

\* new P1(options), new L2(options), new Q4(options), new H8(options)
NewGCellSet(T, options) ==
  IF ~options.hasConn /\ options.topology.kind \in {"undefined", "null"}
  THEN [threw |-> TRUE, obj |-> Unbuilt(T)]
  ELSE IF options.hasConn
    THEN LET h == hypercube(options.conn, TypeDim(T))
         IN IF h.threw THEN [threw |-> TRUE, obj |-> Unbuilt(T)]
            ELSE GCellSet(T, [options EXCEPT !.topology = h.value])
    ELSE GCellSet(T, options)

(***************************************************************************)
(* gcellset: the operations that produce a new set.  Each gives the        *)
(* options it handed to the constructor, whether it threw, and the object  *)
(* the constructor left behind (NoSet when no constructor ran).            *)
(***************************************************************************)
Made(op, options, r) ==
  [op |-> op, options |-> options, threw |-> r.threw, obj |-> r.obj]

NoMade == [op |-> "none", options |-> NoOptions, threw |-> FALSE, obj |-> NoSet]

\* The operation threw before a constructor ran.
ThrewEarly(op, options) ==
  [op |-> op, options |-> options, threw |-> TRUE, obj |-> NoSet]

\* GCellSet.prototype.clone
clone(g) ==
  LET options == Options(FALSE, <<>>, TopologyClone(g.topology),
                         g.axisSymm, g.otherDimension)
  IN Made("clone", options, NewGCellSet(g.type, options))

SubsetConn_sorted(conn, indices) ==
  [k \in 1..Len(indices) |-> conn[SetMax({indices[j] : j \in 1..k}) + 1]]

\* subset(conn, indices): the selected cells, in the order of the indices.
SubsetConn(conn, indices) == [k \in 1..Len(indices) |-> conn[indices[k] + 1]]

\* GCellSet.prototype.subset
subset(g, indices) ==
  LET options == Options(TRUE, SubsetConn(getMaxCells(g.topology), indices),
                         UndefinedTopology, g.axisSymm, g.otherDimension)
  IN Made("subset", options, NewGCellSet(g.type, options))

\* cellTypes.indexOf(type)
IndexOf(s, x) ==
  IF \E i \in 1..Len(s) : s[i] = x
  THEN (CHOOSE i \in 1..Len(s) : s[i] = x /\ \A j \in 1..(i - 1) : s[j] # x) - 1
  ELSE -1

\* GCellSet.prototype.extrudedGCellSetConstructor: whether it threw, and the
\* name under which the constructor is looked up in the exports.
extrudedGCellSetConstructor(g) ==
  LET cellTypes == FamilyCellTypes(getFamilyType(g.topology))
      idx == IndexOf(cellTypes, g.type)
      idxNext == idx + 1
  IN IF idx < 0 THEN [threw |-> TRUE, type |-> ""]
     ELSE IF idxNext >= Len(cellTypes) THEN [threw |-> TRUE, type |-> ""]
     ELSE [threw |-> FALSE, type |-> cellTypes[idxNext + 1]]

\* The names that setFamily_ accepts.
FamilyNames == {"P1L2T3T4", "P1L3T6T10", "P1L2Q4H8", "P1L3Q8H20"}

\* GCellSet.prototype.setFamily_: the Topology after the call.
setFamily_(topo, name) ==
  IF name \in FamilyNames /\ topo.kind = "Topology"
  THEN [topo EXCEPT !.family = name] ELSE topo

\* GCellSet.prototype.extrude; a name that the module does not export is
\* undefined, and `new undefined(...)` is a TypeError.
extrude(g, flags) ==
  LET C == extrudedGCellSetConstructor(g)
      options == Options(FALSE, <<>>, TopologyExtrude(g.topology, flags),
                         g.axisSymm, g.otherDimension)
  IN IF C.threw THEN ThrewEarly("extrude", NoOptions)
     ELSE IF C.type \notin Types THEN ThrewEarly("extrude", options)
     ELSE Made("extrude", options, NewGCellSet(C.type, options))

\* P1, L2, Q4, H8 .prototype.boundaryGCellSetConstructor
boundaryGCellSetConstructor(T) ==
  CASE T = "P1" -> "null" [] T = "L2" -> "P1" [] T = "Q4" -> "L2" [] OTHER -> "Q4"

boundary_keeping(g) ==
  LET C == boundaryGCellSetConstructor(g.type)
      options == Options(TRUE, boundaryConn(g.topology), UndefinedTopology,
                         g.axisSymm, g.otherDimension)
  IN IF C = "null" THEN ThrewEarly("boundary", options)
     ELSE Made("boundary", options, NewGCellSet(C, options))

\* GCellSet.prototype.boundary; `new null(...)` is a TypeError.
boundary(g) ==
  LET C == boundaryGCellSetConstructor(g.type)
      options == Options(TRUE, boundaryConn(g.topology), UndefinedTopology,
                         "undefined", "undefined")
  IN IF C = "null" THEN ThrewEarly("boundary", options)
     ELSE Made("boundary", options, NewGCellSet(C, options))


\* exports[name]: the element types that gcellset exports are P1, L2, Q4 and
\* H8; any other property of the exports is undefined.
exports(name) == IF name \in Types THEN name ELSE "undefined"

\* What a call that resolves a constructor does: it returns a constructor
\* (named by its type), null or undefined, or it throws.
ChainCall(op, threw, value) == [op |-> op, threw |-> threw, value |-> value]
NoChainCall == ChainCall("none", FALSE, "")

\* return exports[nextType] of extrudedGCellSetConstructor
ExtrudedConstructorCall(g) ==
  LET C == extrudedGCellSetConstructor(g)
  IN IF C.threw THEN ChainCall("extrudedGCellSetConstructor", TRUE, "")
     ELSE ChainCall("extrudedGCellSetConstructor", FALSE, exports(C.type))

BoundaryConstructorCall(g) ==
  ChainCall("boundaryGCellSetConstructor", FALSE, boundaryGCellSetConstructor(g.type))


(***************************************************************************)
(* gcellset: boxSelect.  Coordinates, bounds and inflate are whole numbers *)
(* small enough that x - inflate and x + inflate are exact.                *)
(***************************************************************************)
\* A FeNodeSet: the coordinates of node idx are xyz[idx + 1].
FeNodeSet(xyz) == [isFeNodeSet |-> TRUE, xyz |-> xyz]
NotAFeNodeSet == [isFeNodeSet |-> FALSE, xyz |-> <<>>]

\* fens.xyzAt(idx)
xyzAt(fens, idx) == fens.xyz[idx + 1]

\* A boxSelectOption: whether options.bounds is an array, options.inflate
\* (a number, or a value that is no number) and options.any.
BoxOptions(boundsIsArray, inflateIsNumber, inflate, anyOption) ==
  [isObject |-> TRUE, boundsIsArray |-> boundsIsArray,
   inflateIsNumber |-> inflateIsNumber, inflate |-> inflate, any |-> anyOption]
NotAnObject ==
  [isObject |-> FALSE, boundsIsArray |-> FALSE,
   inflateIsNumber |-> FALSE, inflate |-> 0, any |-> "undefined"]

\* feutils.isXyzInsideBox(xyz, bounds): every coordinate lies between the
\* lower and the upper bound of its axis.
isXyzInsideBox(xyz, box) ==
  \A k \in 1..Len(xyz) : box[2 * k - 1] <= xyz[k] /\ xyz[k] <= box[2 * k]

allNodesInBox_some(fens, c, box) ==
  \E i \in 1..Len(c) : isXyzInsideBox(xyzAt(fens, c[i]), box)

allNodesInBox(fens, c, box) ==
  \A i \in 1..Len(c) : isXyzInsideBox(xyzAt(fens, c[i]), box)

anyNodesInBox(fens, c, box) ==
  \E i \in 1..Len(c) : isXyzInsideBox(xyzAt(fens, c[i]), box)

InflatedBounds_allLower(box, inflate) ==
  [i \in 1..Len(box) |-> box[i] - inflate]

\* bounds.map(function(x, i) { if (i % 2 === 0) return x - options.inflate;
\*                             return x + options.inflate; })
InflatedBounds(box, inflate) ==
  [i \in 1..Len(box) |->
     IF (i - 1) % 2 = 0 THEN box[i] - inflate ELSE box[i] + inflate]

\* isAssigned(options.any) ? !!(options.any) : false
AnyOf(anyOption) == anyOption = "true"

\* conn.forEach(function(cell, idx) {
\*   if (isCellInBox(fens, cell, bounds)) res.push(idx); })
RECURSIVE SelectFrom(_, _, _, _, _)
SelectFrom(cells, idx, fens, box, anyFlag) ==
  IF idx >= Len(cells) THEN <<>>
  ELSE LET isCellInBox == IF anyFlag THEN anyNodesInBox(fens, cells[idx + 1], box)
                          ELSE allNodesInBox(fens, cells[idx + 1], box)
       IN (IF isCellInBox THEN <<idx>> ELSE <<>>)
            \o SelectFrom(cells, idx + 1, fens, box, anyFlag)

\* What boxSelect does: whether it threw, the indices it returned, and the
\* entries of the array options.bounds when it is done.
BoxResult(threw, value, boundsAfter) ==
  [threw |-> threw, value |-> value, boundsAfter |-> boundsAfter]

\* GCellSet.prototype.boxSelect
boxSelect(g, fens, options, boundsArray) ==
  IF ~fens.isFeNodeSet THEN BoxResult(TRUE, <<>>, boundsArray)
  ELSE IF ~options.isObject \/ ~options.boundsIsArray
    THEN BoxResult(TRUE, <<>>, boundsArray)
    ELSE LET box == IF options.inflateIsNumber
                    THEN InflatedBounds(boundsArray, options.inflate)
                    ELSE boundsArray
         IN BoxResult(FALSE,
                      SelectFrom(getMaxCells(g.topology), 0, fens, box, AnyOf(options.any)),
                      boundsArray)

NoBoxCall == [op |-> "none", given |-> <<>>, threw |-> FALSE, value |-> <<>>]

BoxCall(given, r) ==
  [op |-> "boxSelect", given |-> given, threw |-> r.threw, value |-> r.value]


(***************************************************************************)
(* gcellset: equals, and the Topology a clone holds.                       *)
(***************************************************************************)
\* What a function given as otherDimension does when it is called with
\* undefined for conn, N and x: it returns the same number at every call,
\* it returns NaN (it computes with its arguments), or it throws a
\* TypeError (it reads an entry of an argument).
Fn(kind, value) == [kind |-> kind, value |-> value]
NoFn == Fn("none", "undefined")
FnKinds == {Fn("constant", "1"), Fn("constant", "2"), Fn("constant", "3"),
            Fn("nan", "NaN"), Fn("throws", "undefined")}

\* this.otherDimension(), as equals calls it: the number stored, or what
\* the function stored does without arguments.
otherDimensionNoArgs(g, fnKind) ==
  IF g.otherDimension = "function"
  THEN CASE fnKind.kind = "throws" -> [threw |-> TRUE, value |-> "undefined"]
         [] fnKind.kind = "nan" -> [threw |-> FALSE, value |-> "NaN"]
         [] OTHER -> [threw |-> FALSE, value |-> fnKind.value]
  ELSE [threw |-> FALSE, value |-> g.otherDimension]

\* a !== b of two numbers: NaN differs from every number, itself included.
StrictlyDiffer(a, b) == a = "NaN" \/ b = "NaN" \/ a # b

\* Topology.prototype.normalized: every cell in its canonical form.
TopologyNormalized(t) ==
  [t EXCEPT !.cells = [k \in 1..Len(t.cells) |-> normalizedCell(t.cells[k])]]

\* Topology.prototype.equals: the same cells in the same dimension.
TopologyEquals(t, u) == t.dim = u.dim /\ t.cells = u.cells

\* A value that is no GCellSet.
NotAGCellSet == Unbuilt("Object")

\* isa(other, GCellSet)
isaGCellSet(other) == other.type \in Types

\* GCellSet.prototype.equals, for a receiver whose otherDimension function
\* does fnKind without arguments and an argument whose function does
\* otherFnKind: "true", "false" or "throws".
equals(g, other, fnKind, otherFnKind) ==
  IF ~isaGCellSet(other) THEN "false"
  ELSE IF g.type # other.type \/ TypeCellSize(g.type) # TypeCellSize(other.type)
  THEN "false"
  ELSE IF g.axisSymm # other.axisSymm THEN "false"
  ELSE LET mine == otherDimensionNoArgs(g, fnKind)
           theirs == otherDimensionNoArgs(other, otherFnKind)
       IN IF mine.threw \/ theirs.threw THEN "throws"
          ELSE IF StrictlyDiffer(mine.value, theirs.value) THEN "false"
          ELSE IF ~TopologyEquals(TopologyNormalized(g.topology),
                                  TopologyNormalized(other.topology))
            THEN "false"
            ELSE "true"

\* topology: this._topology.clone() hands the constructor a copy, which is
\* another object than this._topology.
SharesTopologyAfterClone == FALSE

\* cell[0] = node on the first cell of a Topology
WriteNode(t, node) == [t EXCEPT !.cells[1][1] = node]


\* newConn.push(cloneDeep(conn[idx])): the cells pushed are copies, other
\* arrays than those of the receiver.
SharesCellsAfterSubset == FALSE


(***************************************************************************)
(* core.utils: contracts.  A dimension is a positive number or the         *)
(* wildcard '*'.  A vector handed to a contract is described by whether it *)
(* is an array, its length and the position of its first entry that is no  *)
(* number (0 when all are numbers); a matrix by whether it is an array and *)
(* by its rows, each described as a vector.                                *)
(***************************************************************************)
Star == [star |-> TRUE, n |-> 0]
Dimension(k) == [star |-> FALSE, n |-> k]

Vector(isArray, len, badAt) == [isArray |-> isArray, len |-> len, badAt |-> badAt]
Matrix(isArray, rows) == [isArray |-> isArray, rows |-> rows]

\* What a run of a check leaves behind: whether it threw, and the values of
\* the variables m and n that the check closes over.
Checked(threw, m, n) == [threw |-> threw, m |-> m, n |-> n]

\* The function handed to defineContract by ensureVectorOfDimension(n).
VectorCheck(vec, m, n) ==
  IF ~vec.isArray THEN Checked(TRUE, m, n)
  ELSE LET n1 == IF n.star THEN Dimension(vec.len) ELSE n
       IN IF vec.len # n1.n THEN Checked(TRUE, m, n1)
          ELSE Checked(vec.badAt # 0, m, n1)

\* for (i = 0; i < m; ++i) { ... } of the check of ensureMatrixOfDimension,
\* from row i on (rows counted from 1).
RECURSIVE RowsCheck(_, _, _, _)
RowsCheck(rows, i, m, n) ==
  IF i > m.n THEN Checked(FALSE, m, n)
  ELSE IF ~rows[i].isArray THEN Checked(TRUE, m, n)
  ELSE LET n1 == IF n.star THEN Dimension(rows[i].len) ELSE n
       IN IF rows[i].len # n1.n THEN Checked(TRUE, m, n1)
          ELSE IF rows[i].badAt # 0 THEN Checked(TRUE, m, n1)
          ELSE RowsCheck(rows, i + 1, m, n1)

\* The function handed to defineContract by ensureMatrixOfDimension(m, n).
MatrixCheck(mat, m, n) ==
  IF ~mat.isArray THEN Checked(TRUE, m, n)
  ELSE LET m1 == IF m.star THEN Dimension(Len(mat.rows)) ELSE m
       IN IF Len(mat.rows) # m1.n THEN Checked(TRUE, m1, n)
          ELSE RowsCheck(mat.rows, 1, m1, n)

RunCheck(what, input, m, n) ==
  IF what = "vector" THEN VectorCheck(input, m, n) ELSE MatrixCheck(input, m, n)

\* defineContract(c, whatsWrong): the wrapper of c when _env is 'dev', and
\* noop otherwise.
defineContract(envNow) == IF envNow = "dev" THEN "wrapper" ELSE "noop"

\* A contract: the function defineContract returned, the check it was made
\* for with its variables m and n, and, for the record, the _env and the
\* dimensions at the time it was made.
Contract(what, m, n, envNow) ==
  [fn |-> defineContract(envNow), what |-> what, m |-> m, n |-> n,
   madeIn |-> envNow, m0 |-> m, n0 |-> n]

NoContract ==
  [fn |-> "none", what |-> "none", m |-> Star, n |-> Star,
   madeIn |-> "", m0 |-> Star, n0 |-> Star]

\* exports.ensureVectorOfDimension(n, msg)
ensureVectorOfDimension(n, envNow) == Contract("vector", Star, n, envNow)

\* exports.ensureMatrixOfDimension(m, n, msg)
ensureMatrixOfDimension(m, n, envNow) == Contract("matrix", m, n, envNow)

RunsCheck_late(contract, envNow) == envNow = "dev"

\* Whether a call of the contract runs the check: the wrapper does, noop
\* does not, whatever _env is at the time of the call.
RunsCheck(contract, envNow) == contract.fn = "wrapper"

\* contract(input): whether the call threw, and m and n afterwards.
CallContract(contract, input, envNow) ==
  IF RunsCheck(contract, envNow)
  THEN RunCheck(contract.what, input, contract.m, contract.n)
  ELSE Checked(FALSE, contract.m, contract.n)

NoContractCall ==
  [called |-> FALSE, input |-> Vector(FALSE, 0, 0), threw |-> FALSE,
   mBefore |-> Star, nBefore |-> Star, envAt |-> ""]

(***************************************************************************)
(* The inputs of the constructors                                          *)
(***************************************************************************)
\* Three cells for an element of n nodes: nodes 0..n-1, the neighbour that
\* shares half of these nodes, and a cell of one node too many.
BaseCell(n) == [i \in 1..n |-> i - 1]
ShiftedCell(n) == [i \in 1..n |-> i - 1 + ((n + 1) \div 2)]
LongCell(n) == [i \in 1..(n + 1) |-> i - 1]

ConnLists(n) == SeqsUpTo({BaseCell(n), ShiftedCell(n), LongCell(n)}, MaxCells)
MeshLists(n) == SeqsUpTo({BaseCell(n), ShiftedCell(n)}, MaxCells)

Topologies ==
  {NotATopology} \cup
  UNION {{Topology(conn, d, family) : conn \in MeshLists(FamilyCellSizes(family)[d + 1])}
         : <<family, d>> \in Families \X (0..3)}

AxisSymmOptions == {"undefined", "true", "false", "1"}
OtherDimensionOptions == {"undefined", "2", "function", "text"}

IdleGcs ==
  /\ gcs = NoSet
  /\ made = NoMade
  /\ kept = FALSE

(***************************************************************************)
(* gcellset: the shape functions                                           *)
(***************************************************************************)
One == Num(0, 1)
Half == Dyadic(0, 1, 1)
Quarter == Dyadic(0, 1, 2)
Eighth == Dyadic(0, 1, 3)

\* (1 - x)
OneMinus(x) == NumSub(One, x)

OnePlus_minus(x) == NumSub(One, x)

\* (1 + x)
OnePlus(x) == NumAdd(One, x)

\* a * b * c, a * b * c * d as JavaScript evaluates them, from the left.
Mul3(a, b, c) == NumMul(NumMul(a, b), c)
Mul4(a, b, c, d) == NumMul(Mul3(a, b, c), d)

\* P1.prototype.bfun
bfunP1(paramCoords) == << <<One>> >>

\* L2.prototype.bfun
bfunL2(paramCoords) ==
  LET x == paramCoords[1]
  IN << <<NumMul(Half, OneMinus(x))>>,
        <<NumMul(Half, OnePlus(x))>> >>

bfunQ4_rowwise(paramCoords) ==
  LET one_minus_xi == OneMinus(paramCoords[1])
      one_plus_xi == OnePlus(paramCoords[1])
      one_minus_eta == OneMinus(paramCoords[2])
      one_plus_eta == OnePlus(paramCoords[2])
  IN << <<Mul3(Quarter, one_minus_xi, one_minus_eta)>>,
        <<Mul3(Quarter, one_plus_xi, one_minus_eta)>>,
        <<Mul3(Quarter, one_minus_xi, one_plus_eta)>>,
        <<Mul3(Quarter, one_plus_xi, one_plus_eta)>> >>

\* Q4.prototype.bfun
bfunQ4(paramCoords) ==
  LET one_minus_xi == OneMinus(paramCoords[1])
      one_plus_xi == OnePlus(paramCoords[1])
      one_minus_eta == OneMinus(paramCoords[2])
      one_plus_eta == OnePlus(paramCoords[2])
  IN << <<Mul3(Quarter, one_minus_xi, one_minus_eta)>>,
        <<Mul3(Quarter, one_plus_xi, one_minus_eta)>>,
        <<Mul3(Quarter, one_plus_xi, one_plus_eta)>>,
        <<Mul3(Quarter, one_minus_xi, one_plus_eta)>> >>

\* H8.prototype.bfun
bfunH8(paramCoords) ==
  LET one_minus_xi == OneMinus(paramCoords[1])
      one_minus_eta == OneMinus(paramCoords[2])
      one_minus_theta == OneMinus(paramCoords[3])
      one_plus_xi == OnePlus(paramCoords[1])
      one_plus_eta == OnePlus(paramCoords[2])
      one_plus_theta == OnePlus(paramCoords[3])
  IN << <<Mul4(Eighth, one_minus_xi, one_minus_eta, one_minus_theta)>>,
        <<Mul4(Eighth, one_plus_xi, one_minus_eta, one_minus_theta)>>,
        <<Mul4(Eighth, one_plus_xi, one_plus_eta, one_minus_theta)>>,
        <<Mul4(Eighth, one_minus_xi, one_plus_eta, one_minus_theta)>>,
        <<Mul4(Eighth, one_minus_xi, one_minus_eta, one_plus_theta)>>,
        <<Mul4(Eighth, one_plus_xi, one_minus_eta, one_plus_theta)>>,
        <<Mul4(Eighth, one_plus_xi, one_plus_eta, one_plus_theta)>>,
        <<Mul4(Eighth, one_minus_xi, one_plus_eta, one_plus_theta)>> >>

\* bfun of the element type T
bfun(T, paramCoords) ==
  CASE T = "P1" -> bfunP1(paramCoords)
    [] T = "L2" -> bfunL2(paramCoords)
    [] T = "Q4" -> bfunQ4(paramCoords)
    [] OTHER -> bfunH8(paramCoords)

\* numeric.transpose(m)
MatTranspose(m) ==
  IF m = <<>> THEN <<>>
  ELSE [j \in 1..Len(m[1]) |-> [i \in 1..Len(m) |-> m[i][j]]]

\* numeric.mul(m, c) for a matrix m and a number c
MatScale(m, c) ==
  [i \in 1..Len(m) |-> [j \in 1..Len(m[i]) |-> NumMul(m[i][j], c)]]

\* P1.prototype.bfundpar
bfundparP1(paramCoords) == << <<Zero>> >>

\* L2.prototype.bfundpar
bfundparL2(paramCoords) == << <<NumNeg(Half)>>, <<Half>> >>

\* Q4.prototype.bfundpar
bfundparQ4(paramCoords) ==
  LET xi == paramCoords[1]
      eta == paramCoords[2]
  IN << <<NumMul(NumNeg(OneMinus(eta)), Quarter), NumMul(NumNeg(OneMinus(xi)), Quarter)>>,
        <<NumMul(OneMinus(eta), Quarter), NumMul(NumNeg(OnePlus(xi)), Quarter)>>,
        <<NumMul(OnePlus(eta), Quarter), NumMul(OnePlus(xi), Quarter)>>,
        <<NumMul(NumNeg(OnePlus(eta)), Quarter), NumMul(OneMinus(xi), Quarter)>> >>

\* H8.prototype.bfundpar
bfundparH8(paramCoords) ==
  LET one_minus_xi == OneMinus(paramCoords[1])
      one_minus_eta == OneMinus(paramCoords[2])
      one_minus_theta == OneMinus(paramCoords[3])
      one_plus_xi == OnePlus(paramCoords[1])
      one_plus_eta == OnePlus(paramCoords[2])
      one_plus_theta == OnePlus(paramCoords[3])
      val ==
        << << NumMul(NumNeg(one_minus_eta), one_minus_theta),
              NumMul(one_minus_eta, one_minus_theta),
              NumMul(one_plus_eta, one_minus_theta),
              NumMul(NumNeg(one_plus_eta), one_minus_theta),
              NumMul(NumNeg(one_minus_eta), one_plus_theta),
              NumMul(one_minus_eta, one_plus_theta),
              NumMul(one_plus_eta, one_plus_theta),
              NumMul(NumNeg(one_plus_eta), one_plus_theta) >>,
           << NumMul(NumNeg(one_minus_xi), one_minus_theta),
              NumMul(NumNeg(one_plus_xi), one_minus_theta),
              NumMul(one_plus_xi, one_minus_theta),
              NumMul(one_minus_xi, one_minus_theta),
              NumMul(NumNeg(one_minus_xi), one_plus_theta),
              NumMul(NumNeg(one_plus_xi), one_plus_theta),
              NumMul(one_plus_xi, one_plus_theta),
              NumMul(one_minus_xi, one_plus_theta) >>,
           << NumMul(NumNeg(one_minus_xi), one_minus_eta),
              NumMul(NumNeg(one_plus_xi), one_minus_eta),
              NumMul(NumNeg(one_plus_xi), one_plus_eta),
              NumMul(NumNeg(one_minus_xi), one_plus_eta),
              NumMul(one_minus_xi, one_minus_eta),
              NumMul(one_plus_xi, one_minus_eta),
              NumMul(one_plus_xi, one_plus_eta),
              NumMul(one_minus_xi, one_plus_eta) >> >>
  IN MatScale(MatTranspose(val), Eighth)

\* bfundpar of the element type T
bfundpar(T, paramCoords) ==
  CASE T = "P1" -> bfundparP1(paramCoords)
    [] T = "L2" -> bfundparL2(paramCoords)
    [] T = "Q4" -> bfundparQ4(paramCoords)
    [] OTHER -> bfundparH8(paramCoords)

\* The coordinates k / 2^GridBits of the reference interval [-1, 1].
GridCoords == {Dyadic(0, k, GridBits) : k \in (-Pow2(GridBits))..Pow2(GridBits)}

\* Coordinates far outside the reference interval: 2^53 and -2^53.
FarCoords == {Num(1, 0), Num(-1, 0)}

\* The parametric points of an element of dimension d: every coordinate on
\* the grid, or one coordinate far away and the others on the grid.
ParamPoints(d) ==
  [1..d -> GridCoords] \cup
  {p \in [1..d -> GridCoords \cup FarCoords] :
     \E i \in 1..d : /\ p[i] \in FarCoords
                     /\ \A j \in 1..d : j # i => p[j] \in GridCoords}

(***************************************************************************)
(* gcellset: the Jacobians.  A Jacobian is a product of factors that       *)
(* JavaScript multiplies from the left.  A factor is a number, or stands   *)
(* for a number that a helper of core.numeric or feutils computes from the *)
(* arguments of the call: Math.PI, the first coordinate of Nt.x, the norm  *)
(* of the first column of J, the norm of a cross product, det(J).          *)
(***************************************************************************)
NumFactor(n) == [kind |-> "num", num |-> n]
SymFactor(k) == [kind |-> k, num |-> Zero]

PI == SymFactor("Math.PI")
\* dot(transpose(N), x)[0][0]
XyzByDot == SymFactor("dot(transpose(N), x)[0][0]")
\* mul(transpose(N), x)[0][0]
XyzByMul == SymFactor("mul(transpose(N), x)[0][0]")
\* norm(transpose(J)[0])
NormOfTangent == SymFactor("norm(transpose(J)[0])")
\* norm(dot(skewmat(nthColumn(J, 0)), nthColumn(J, 1)))
NormOfCross == SymFactor("norm(dot(skewmat(nthColumn(J, 0)), nthColumn(J, 1)))")
\* det(J)
DetOfJ == SymFactor("det(J)")

Two == NumFactor(Num(0, 2))

\* What a call does: it returns a product, or it throws.  An Error is
\* thrown by gcellset itself, a TypeError by calling a method that the set
\* does not have, and "det" and "skewmat" by the helper of that name.
Returns(v) == [threw |-> FALSE, error |-> "none", value |-> v]
Throws(e) == [threw |-> TRUE, error |-> e, value |-> <<>>]

\* term * f
Times(term, f) ==
  IF Len(term) = 1 /\ term[1].kind = "num" /\ f.kind = "num"
  THEN <<NumFactor(NumMul(term[1].num, f.num))>>
  ELSE Append(term, f)

\* r * f for the result r of a call: a call that threw stops the product.
ThenTimes(r, f) == IF r.threw THEN r ELSE Returns(Times(r.value, f))

\* GCellSet.prototype.otherDimension: the number stored, or the number that
\* the function stored returns for the arguments of the call.
otherDimension(g, fnValue) ==
  IF g.otherDimension = "function" THEN NumFactor(fnValue)
  ELSE IF g.otherDimension = "2" THEN NumFactor(Num(0, 2))
  ELSE NumFactor(One)

axisSymm(g) == g.axisSymm = "true"

\* size(J)
size(J) == <<Len(J), IF Len(J) = 0 THEN 0 ELSE Len(J[1])>>

\* What det does with a matrix that is not square, and skewmat with a vector
\* that has not three entries, is not fixed here: lib says whether the
\* helper throws.
det(J, lib) ==
  IF size(J)[1] # size(J)[2] /\ lib THEN Throws("det") ELSE Returns(<<DetOfJ>>)

CrossNorm(J, lib) ==
  IF size(J)[1] # 3 /\ lib THEN Throws("skewmat") ELSE Returns(<<NormOfCross>>)

\* GCellSetManifold0.prototype.jacobian
jacobian0(g, J, fnValue, lib) == Returns(<<NumFactor(One)>>)

\* GCellSetManifold0.prototype.jacobianCurve
jacobianCurve0(g, J, fnValue, lib) ==
  IF axisSymm(g)
  THEN Returns(Times(Times(Times(<<NumFactor(One)>>, Two), PI), XyzByDot))
  ELSE Returns(Times(<<NumFactor(One)>>, otherDimension(g, fnValue)))

\* GCellSetManifold0.prototype.jacobianSurface
jacobianSurface0(g, J, fnValue, lib) ==
  IF axisSymm(g)
  THEN Returns(Times(Times(Times(Times(<<NumFactor(One)>>, Two), PI), XyzByDot),
                     otherDimension(g, fnValue)))
  ELSE Returns(Times(<<NumFactor(One)>>, otherDimension(g, fnValue)))

\* GCellSetManifold0.prototype.jacobianVolumn
jacobianVolumn0(g, J, fnValue, lib) ==
  IF axisSymm(g)
  THEN ThenTimes(ThenTimes(ThenTimes(ThenTimes(
         jacobianCurve0(g, J, fnValue, lib), Two), PI), XyzByMul),
         otherDimension(g, fnValue))
  ELSE ThenTimes(jacobianCurve0(g, J, fnValue, lib), otherDimension(g, fnValue))

\* GCellSetManifold1.prototype.jacobianCurve
jacobianCurve1(g, J, fnValue, lib) == Returns(<<NormOfTangent>>)

\* GCellSetManifold1.prototype.jacobian
jacobian1(g, J, fnValue, lib) == jacobianCurve1(g, J, fnValue, lib)

\* GCellSetManifold1.prototype.jacobianSurface
jacobianSurface1(g, J, fnValue, lib) ==
  IF axisSymm(g)
  THEN ThenTimes(ThenTimes(ThenTimes(jacobianCurve1(g, J, fnValue, lib), Two), PI), XyzByDot)
  ELSE ThenTimes(jacobianCurve1(g, J, fnValue, lib), otherDimension(g, fnValue))

\* GCellSetManifold1.prototype.jacobianVolumn
jacobianVolumn1(g, J, fnValue, lib) ==
  IF axisSymm(g)
  THEN ThenTimes(ThenTimes(ThenTimes(ThenTimes(
         jacobianCurve1(g, J, fnValue, lib), Two), PI), XyzByDot),
         otherDimension(g, fnValue))
  ELSE ThenTimes(jacobianCurve1(g, J, fnValue, lib), otherDimension(g, fnValue))

Det2x2_sameColumn(J) ==
  NumSub(NumMul(J[1][1], J[2][2]), NumMul(J[2][1], J[2][1]))

\* J[0][0]*J[1][1] - J[1][0]*J[0][1]
Det2x2(J) ==
  NumSub(NumMul(J[1][1], J[2][2]), NumMul(J[2][1], J[1][2]))

\* GCellSetManifold2.prototype.jacobianSurface
jacobianSurface2(g, J, fnValue, lib) ==
  LET sdim == size(J)[1]
      ntan == size(J)[2]
  IN IF ntan = 2
     THEN IF sdim = ntan THEN Returns(<<NumFactor(Det2x2(J))>>)
          ELSE CrossNorm(J, lib)
     ELSE Throws("Error")

\* GCellSetManifold2.prototype.jacobian
jacobian2(g, J, fnValue, lib) == jacobianSurface2(g, J, fnValue, lib)

\* GCellSetManifold2.prototype.jacobianVolumn
jacobianVolumn2(g, J, fnValue, lib) ==
  IF axisSymm(g)
  THEN ThenTimes(ThenTimes(ThenTimes(jacobianSurface2(g, J, fnValue, lib), Two), PI), XyzByDot)
  ELSE ThenTimes(jacobianSurface2(g, J, fnValue, lib), otherDimension(g, fnValue))

\* var tmp = size(J), sdim = tmp[0], ntan = tmp[0]
TangentCount3(J) == size(J)[1]

\* GCellSetManifold3.prototype.jacobianVolumn
jacobianVolumn3(g, J, fnValue, lib) ==
  LET ntan == TangentCount3(J)
  IN IF ntan = 3 THEN det(J, lib) ELSE Throws("Error")

\* GCellSetManifold3.prototype.jacobian
jacobian3(g, J, fnValue, lib) == jacobianVolumn3(g, J, fnValue, lib)

\* The methods as a set of type g.type finds them on its prototype chain; a
\* method that no prototype of the chain defines is undefined, and calling
\* it is a TypeError.
jacobian(g, J, fnValue, lib) ==
  CASE TypeDim(g.type) = 0 -> jacobian0(g, J, fnValue, lib)
    [] TypeDim(g.type) = 1 -> jacobian1(g, J, fnValue, lib)
    [] TypeDim(g.type) = 2 -> jacobian2(g, J, fnValue, lib)
    [] OTHER -> jacobian3(g, J, fnValue, lib)

jacobianCurve(g, J, fnValue, lib) ==
  CASE TypeDim(g.type) = 0 -> jacobianCurve0(g, J, fnValue, lib)
    [] TypeDim(g.type) = 1 -> jacobianCurve1(g, J, fnValue, lib)
    [] OTHER -> Throws("TypeError")

jacobianSurface(g, J, fnValue, lib) ==
  CASE TypeDim(g.type) = 0 -> jacobianSurface0(g, J, fnValue, lib)
    [] TypeDim(g.type) = 1 -> jacobianSurface1(g, J, fnValue, lib)
    [] TypeDim(g.type) = 2 -> jacobianSurface2(g, J, fnValue, lib)
    [] OTHER -> Throws("TypeError")

jacobianVolumn(g, J, fnValue, lib) ==
  CASE TypeDim(g.type) = 0 -> jacobianVolumn0(g, J, fnValue, lib)
    [] TypeDim(g.type) = 1 -> jacobianVolumn1(g, J, fnValue, lib)
    [] TypeDim(g.type) = 2 -> jacobianVolumn2(g, J, fnValue, lib)
    [] OTHER -> jacobianVolumn3(g, J, fnValue, lib)

\* The last argument of jacobianInDim: a number, or a value that is no
\* number and prints as n (the string "3").
Target(isNumber, n) == [isNumber |-> isNumber, n |-> n]

\* case k: of a switch, which compares with ===
IsCase(target, k) == target.isNumber /\ target.n = k

\* GCellSetManifold0.prototype.jacobianInDim
jacobianInDim0(g, J, fnValue, lib, target) ==
  IF IsCase(target, 3) THEN jacobianVolumn(g, J, fnValue, lib)
  ELSE IF IsCase(target, 2) THEN jacobianSurface(g, J, fnValue, lib)
  ELSE IF IsCase(target, 1) THEN jacobianCurve(g, J, fnValue, lib)
  ELSE Throws("Error")

\* GCellSetManifold1.prototype.jacobianInDim
jacobianInDim1(g, J, fnValue, lib, target) ==
  IF IsCase(target, 3) THEN jacobianVolumn(g, J, fnValue, lib)
  ELSE IF IsCase(target, 2) THEN jacobianSurface(g, J, fnValue, lib)
  ELSE IF IsCase(target, 1) THEN jacobianCurve(g, J, fnValue, lib)
  ELSE Throws("Error")

jacobianInDim2_curveToo(g, J, fnValue, lib, target) ==
  IF IsCase(target, 3) THEN jacobianVolumn(g, J, fnValue, lib)
  ELSE IF IsCase(target, 2) THEN jacobianSurface(g, J, fnValue, lib)
  ELSE IF IsCase(target, 1) THEN jacobianSurface(g, J, fnValue, lib)
  ELSE Throws("Error")

\* GCellSetManifold2.prototype.jacobianInDim
jacobianInDim2(g, J, fnValue, lib, target) ==
  IF IsCase(target, 3) THEN jacobianVolumn(g, J, fnValue, lib)
  ELSE IF IsCase(target, 2) THEN jacobianSurface(g, J, fnValue, lib)
  ELSE Throws("Error")

\* GCellSetManifold3.prototype.jacobianInDim
jacobianInDim3(g, J, fnValue, lib, target) ==
  IF IsCase(target, 3) THEN jacobianVolumn(g, J, fnValue, lib)
  ELSE Throws("Error")

jacobianInDim(g, J, fnValue, lib, target) ==
  CASE TypeDim(g.type) = 0 -> jacobianInDim0(g, J, fnValue, lib, target)
    [] TypeDim(g.type) = 1 -> jacobianInDim1(g, J, fnValue, lib, target)
    [] TypeDim(g.type) = 2 -> jacobianInDim2(g, J, fnValue, lib, target)
    [] OTHER -> jacobianInDim3(g, J, fnValue, lib, target)

\* The Jacobian matrices drawn: rows by cols, p on the diagonal, q above
\* it and r below it.
JMatrix(rows, cols, p, q, r) ==
  [i \in 1..rows |-> [j \in 1..cols |->
     IF i = j THEN Num(0, p) ELSE IF i < j THEN Num(0, q) ELSE Num(0, r)]]

Targets == {Target(TRUE, n) : n \in 0..(MaxSide + 1)} \cup {Target(FALSE, 3)}

NoJacCall == [op |-> "none", target |-> Target(FALSE, 0), lib |-> FALSE,
              threw |-> FALSE, error |-> "none", value |-> <<>>]

JacCall(op, target, lib, r) ==
  [op |-> op, target |-> target, lib |-> lib,
   threw |-> r.threw, error |-> r.error, value |-> r.value]

IdleJac ==
  /\ jacSet = NoSet
  /\ jacJ = <<>>
  /\ jacFnValue = Zero
  /\ jacRet = NoJacCall

\* The variables of the parts added later while another part is looked at.
IdleChain ==
  /\ chainSet = NoSet
  /\ chainRet = NoChainCall

IdleBox ==
  /\ boxSet = NoSet
  /\ boxFens = NotAFeNodeSet
  /\ boxOptions = NotAnObject
  /\ boxBounds = <<>>
  /\ boxRet = NoBoxCall

\* A call of equals: on the clone with g ("clone") or on g with another
\* value ("other"), and "true", "false" or "throws".
EqualsCall(with, value) == [with |-> with, value |-> value]
NoEquals == EqualsCall("none", "none")

IdleClone ==
  /\ cloneSet = NoSet
  /\ cloneFnKind = NoFn
  /\ cloneMade = NoMade
  /\ cloneShares = FALSE
  /\ cloneOrig = UndefinedTopology
  /\ cloneEq = NoEquals

IdleSub ==
  /\ subSet = NoSet
  /\ subIndices = <<>>
  /\ subMade = NoMade
  /\ subShares = FALSE
  /\ subOrig = UndefinedTopology

IdleCtr ==
  /\ env = "dev"
  /\ ctr = NoContract
  /\ ctrRet = NoContractCall

IdleRest == IdleJac /\ IdleChain /\ IdleBox /\ IdleClone /\ IdleSub /\ IdleCtr

NotEvaluated == <<>>

IdleBfun ==
  /\ elemType = "none"
  /\ point = <<>>
  /\ bfunVal = NotEvaluated
  /\ bfundparVal = NotEvaluated

\* The variables of system.vector while another part of the library is looked at.
IdleAsm ==
  /\ dim = 0
  /\ evs = [kind |-> "other", items |-> <<>>, pos |-> 0]
  /\ sparseVector = NullVector
  /\ allocs = 0
  /\ nexts = 0
  /\ hasNexts = 0
  /\ calls = 0
  /\ ret = NoCall

\* The variables of core.utils while another part of the library is looked at.
IdleCell ==
  /\ cell = <<>>
  /\ offset = 0
  /\ rotated = NoCell
  /\ normCell = NoCell
  /\ normRot = NoCell
  /\ normTwice = NoCell

(***************************************************************************)
(* core.utils: the calls a caller makes on one cell.                       *)
(***************************************************************************)
InitCell ==
  /\ IdleGcs
  /\ IdleBfun
  /\ IdleRest
  /\ cell \in Cells
  /\ offset \in Offsets
  /\ rotated = NoCell
  /\ normCell = NoCell
  /\ normRot = NoCell
  /\ normTwice = NoCell
  /\ IdleAsm

\* The caller rotates the cell: rotated = rotateLeft(cell, offset).
RotateCell ==
  /\ rotated = NoCell
  /\ rotated' = rotateLeft(cell, offset)
  /\ UNCHANGED <<cell, offset, normCell, normRot, normTwice, asmVars, gcsVars, bfunVars, restVars>>

\* The caller normalizes the cell.
NormalizeCell ==
  /\ normCell = NoCell
  /\ normCell' = normalizedCell(cell)
  /\ UNCHANGED <<cell, offset, rotated, normRot, normTwice, asmVars, gcsVars, bfunVars, restVars>>

\* The caller normalizes the rotated cell.
NormalizeRotated ==
  /\ rotated # NoCell
  /\ normRot = NoCell
  /\ normRot' = normalizedCell(rotated)
  /\ UNCHANGED <<cell, offset, rotated, normCell, normTwice, asmVars, gcsVars, bfunVars, restVars>>

\* The caller normalizes the normalized cell once more.
NormalizeAgain ==
  /\ normCell # NoCell
  /\ normTwice = NoCell
  /\ normTwice' = normalizedCell(normCell)
  /\ UNCHANGED <<cell, offset, rotated, normCell, normRot, asmVars, gcsVars, bfunVars, restVars>>

NextCell == RotateCell \/ NormalizeCell \/ NormalizeRotated \/ NormalizeAgain

SpecCell == InitCell /\ [][NextCell]_vars

(***************************************************************************)
(* system.vector: the calls a caller makes on one SparseSystemVector.      *)
(***************************************************************************)
\* new SparseSystemVector(dim, elementVectors).
InitAsm ==
  /\ IdleGcs
  /\ IdleBfun
  /\ IdleRest
  /\ dim = MaxDim
  /\ \/ SourceIs(evs, dim, Shapes(MaxEvs, MaxEntries, Defects), {Num(0, 1)},
                  {"array", "iterator"})
     \/ evs = [kind |-> "other", items |-> <<>>, pos |-> 0]
  /\ sparseVector = NullVector
  /\ allocs = 0
  /\ nexts = 0
  /\ hasNexts = 0
  /\ calls = 0
  /\ ret = NoCall
  /\ IdleCell

\* A call of sparseVector().
CallSparseVector ==
  /\ calls < MaxCalls
  /\ calls' = calls + 1
  /\ SparseVectorCall("sparseVector")
  /\ UNCHANGED <<dim, cellVars, gcsVars, bfunVars, restVars>>

\* A call of toFull(): this.sparseVector().toFull().
CallToFull ==
  /\ calls < MaxCalls
  /\ calls' = calls + 1
  /\ SparseVectorCall("toFull")
  /\ UNCHANGED <<dim, cellVars, gcsVars, bfunVars, restVars>>

NextAsm == CallSparseVector \/ CallToFull

SpecAsm == InitAsm /\ [][NextAsm]_vars

(***************************************************************************)
(* system.vector: toFull() on a new SparseSystemVector over an array of    *)
(* well-formed ElementVectors.                                             *)
(***************************************************************************)
InitFold ==
  /\ IdleGcs
  /\ IdleBfun
  /\ IdleRest
  /\ dim = FoldDim
  /\ SourceIs(evs, dim, Shapes(MaxEvs, MaxEntries, {}), VecVals, {"array"})
  /\ sparseVector = NullVector
  /\ allocs = 0
  /\ nexts = 0
  /\ hasNexts = 0
  /\ calls = 0
  /\ ret = NoCall
  /\ IdleCell

\* The first call on the instance is toFull().
FirstToFull == calls = 0 /\ CallToFull

NextFold == FirstToFull

SpecFold == InitFold /\ [][NextFold]_vars

(***************************************************************************)
(* Specification of the GCellSet constructors.  A caller builds one set    *)
(* from a connectivity list or from a Topology, derives sets from it with  *)
(* clone, subset, extrude and boundary, hands its Topology to another      *)
(* constructor, relabels its family, and goes on once with an extruded or  *)
(* boundary set.  The result of one call is held until the caller lets go  *)
(* of it.                                                                  *)
(***************************************************************************)
InitGcs ==
  /\ IdleGcs
  /\ IdleCell
  /\ IdleAsm
  /\ IdleBfun
  /\ IdleRest

NotGcs == <<cellVars, asmVars, bfunVars, restVars>>

NewFromConn ==
  /\ gcs = NoSet
  /\ made = NoMade
  /\ \E T \in Types, ax \in AxisSymmOptions, od \in OtherDimensionOptions :
       \E conn \in ConnLists(TypeCellSize(T)) :
         LET options == Options(TRUE, conn, UndefinedTopology, ax, od)
         IN made' = Made("new", options, NewGCellSet(T, options))
  /\ UNCHANGED <<gcs, kept, NotGcs>>

NewFromTopology ==
  /\ gcs = NoSet
  /\ made = NoMade
  /\ \E T \in Types, ax \in AxisSymmOptions, od \in OtherDimensionOptions :
       \E topo \in Topologies :
         LET options == Options(FALSE, <<>>, topo, ax, od)
         IN made' = Made("new", options, NewGCellSet(T, options))
  /\ UNCHANGED <<gcs, kept, NotGcs>>

NewFromNothing ==
  /\ gcs = NoSet
  /\ made = NoMade
  /\ \E T \in Types, ax \in AxisSymmOptions, od \in OtherDimensionOptions :
       \E topo \in {UndefinedTopology, NullTopology} :
         LET options == Options(FALSE, <<>>, topo, ax, od)
         IN made' = Made("new", options, NewGCellSet(T, options))
  /\ UNCHANGED <<gcs, kept, NotGcs>>

UseNew ==
  /\ gcs = NoSet
  /\ made.op = "new"
  /\ ~made.threw
  /\ gcs' = made.obj
  /\ made' = NoMade
  /\ UNCHANGED <<kept, NotGcs>>

\* The caller lets go of the result of the last call.
Forget ==
  /\ made # NoMade
  /\ made' = NoMade
  /\ UNCHANGED <<gcs, kept, NotGcs>>

NewFromOwnTopology ==
  /\ gcs # NoSet
  /\ made = NoMade
  /\ \E T \in Types :
       LET options == Options(FALSE, <<>>, gcs.topology, "undefined", "undefined")
       IN made' = Made("new", options, NewGCellSet(T, options))
  /\ UNCHANGED <<gcs, kept, NotGcs>>

CallClone ==
  /\ gcs # NoSet
  /\ made = NoMade
  /\ made' = clone(gcs)
  /\ UNCHANGED <<gcs, kept, NotGcs>>

CallSubset ==
  /\ gcs # NoSet
  /\ made = NoMade
  /\ \E indices \in SeqsUpTo(0..(Len(gcs.topology.cells) - 1), MaxCells) :
       made' = subset(gcs, indices)
  /\ UNCHANGED <<gcs, kept, NotGcs>>

CallExtrude ==
  /\ gcs # NoSet
  /\ made = NoMade
  /\ \E flags \in SeqsUpTo(BOOLEAN, MaxLayers) : made' = extrude(gcs, flags)
  /\ UNCHANGED <<gcs, kept, NotGcs>>

CallBoundary ==
  /\ gcs # NoSet
  /\ made = NoMade
  /\ made' = boundary(gcs)
  /\ UNCHANGED <<gcs, kept, NotGcs>>

\* setFamily_ writes into the Topology object of the set; a set that a
\* constructor has just built around the same object sees the new label.
CallSetFamily ==
  /\ gcs # NoSet
  /\ \E name \in Families \cup {"P1L2"} :
       /\ gcs' = [gcs EXCEPT !.topology = setFamily_(gcs.topology, name)]
       /\ made' = IF made.op = "new"
                  THEN [made EXCEPT
                          !.options.topology = setFamily_(made.options.topology, name),
                          !.obj.topology = setFamily_(made.obj.topology, name)]
                  ELSE made
  /\ UNCHANGED <<kept, NotGcs>>

UseDerived ==
  /\ ~kept
  /\ made.op \in {"extrude", "boundary"}
  /\ ~made.threw
  /\ gcs' = made.obj
  /\ made' = NoMade
  /\ kept' = TRUE
  /\ UNCHANGED NotGcs

NextGcs ==
  \/ NewFromConn
  \/ NewFromTopology
  \/ NewFromNothing
  \/ UseNew
  \/ Forget
  \/ NewFromOwnTopology
  \/ CallClone
  \/ CallSubset
  \/ CallExtrude
  \/ CallBoundary
  \/ CallSetFamily
  \/ UseDerived

SpecGcs == InitGcs /\ [][NextGcs]_vars

(***************************************************************************)
(* Specification of the shape functions: one element type, one parametric  *)
(* point, one evaluation of each of bfun and bfundpar.                     *)
(***************************************************************************)
InitBfun ==
  /\ elemType \in Types
  /\ point \in ParamPoints(TypeDim(elemType))
  /\ bfunVal = NotEvaluated
  /\ bfundparVal = NotEvaluated
  /\ IdleRest
  /\ IdleCell
  /\ IdleAsm
  /\ IdleGcs

EvalBfun ==
  /\ bfunVal = NotEvaluated
  /\ bfunVal' = bfun(elemType, point)
  /\ UNCHANGED <<elemType, point, bfundparVal, cellVars, asmVars, gcsVars, restVars>>

EvalBfundpar ==
  /\ bfundparVal = NotEvaluated
  /\ bfundparVal' = bfundpar(elemType, point)
  /\ UNCHANGED <<elemType, point, bfunVal, cellVars, asmVars, gcsVars, restVars>>

NextBfun == EvalBfun \/ EvalBfundpar

SpecBfun == InitBfun /\ [][NextBfun]_vars

(***************************************************************************)
(* Specification of the Jacobians: one set of each type, one matrix J, and *)
(* one call of jacobian, jacobianCurve, jacobianSurface, jacobianVolumn or *)
(* jacobianInDim.                                                          *)
(***************************************************************************)
FnValues == {Num(0, 3), Half}

InitJac ==
  /\ IdleCtr
  /\ IdleSub
  /\ IdleChain
  /\ IdleBox
  /\ IdleClone
  /\ IdleCell
  /\ IdleAsm
  /\ IdleGcs
  /\ IdleBfun
  /\ \E T \in Types, ax \in AxisSymmOptions, od \in OtherDimensionOptions :
       /\ jacSet = NewGCellSet(T, Options(TRUE, <<BaseCell(TypeCellSize(T))>>,
                                          UndefinedTopology, ax, od)).obj
       /\ jacFnValue \in IF OtherDimensionOf(od) = "function" THEN FnValues ELSE {Zero}
  /\ \E rows \in 1..MaxSide, cols \in 1..MaxSide :
       \E p \in 1..MaxJEntry, q \in 1..MaxJEntry, r \in 1..MaxJEntry :
         jacJ = JMatrix(rows, cols, p, q, r)
  /\ jacRet = NoJacCall

NotJac == <<cellVars, asmVars, gcsVars, bfunVars, chainVars, boxVars, cloneVars, subVars, ctrVars>>

CallJacobian ==
  /\ jacRet = NoJacCall
  /\ \E lib \in BOOLEAN :
       jacRet' = JacCall("jacobian", Target(FALSE, 0), lib,
                         jacobian(jacSet, jacJ, jacFnValue, lib))
  /\ UNCHANGED <<jacSet, jacJ, jacFnValue, NotJac>>

CallJacobianCurve ==
  /\ jacRet = NoJacCall
  /\ \E lib \in BOOLEAN :
       jacRet' = JacCall("jacobianCurve", Target(FALSE, 0), lib,
                         jacobianCurve(jacSet, jacJ, jacFnValue, lib))
  /\ UNCHANGED <<jacSet, jacJ, jacFnValue, NotJac>>

CallJacobianSurface ==
  /\ jacRet = NoJacCall
  /\ \E lib \in BOOLEAN :
       jacRet' = JacCall("jacobianSurface", Target(FALSE, 0), lib,
                         jacobianSurface(jacSet, jacJ, jacFnValue, lib))
  /\ UNCHANGED <<jacSet, jacJ, jacFnValue, NotJac>>

CallJacobianVolumn ==
  /\ jacRet = NoJacCall
  /\ \E lib \in BOOLEAN :
       jacRet' = JacCall("jacobianVolumn", Target(FALSE, 0), lib,
                         jacobianVolumn(jacSet, jacJ, jacFnValue, lib))
  /\ UNCHANGED <<jacSet, jacJ, jacFnValue, NotJac>>

CallJacobianInDim ==
  /\ jacRet = NoJacCall
  /\ \E lib \in BOOLEAN, target \in Targets :
       jacRet' = JacCall("jacobianInDim", target, lib,
                         jacobianInDim(jacSet, jacJ, jacFnValue, lib, target))
  /\ UNCHANGED <<jacSet, jacJ, jacFnValue, NotJac>>

NextJac ==
  \/ CallJacobian
  \/ CallJacobianCurve
  \/ CallJacobianSurface
  \/ CallJacobianVolumn
  \/ CallJacobianInDim

SpecJac == InitJac /\ [][NextJac]_vars

(***************************************************************************)
(* Specification of the resolution of the neighbouring element types: one  *)
(* set built on a Topology of any family, setFamily_, and one call of      *)
(* extrudedGCellSetConstructor or boundaryGCellSetConstructor.             *)
(***************************************************************************)
InitChain ==
  /\ IdleCtr
  /\ IdleSub
  /\ IdleCell
  /\ IdleAsm
  /\ IdleGcs
  /\ IdleBfun
  /\ IdleJac
  /\ IdleBox
  /\ IdleClone
  /\ \E T \in Types, topo \in Topologies :
       LET r == NewGCellSet(T, Options(FALSE, <<>>, topo, "undefined", "undefined"))
       IN ~r.threw /\ chainSet = r.obj
  /\ chainRet = NoChainCall

NotChain == <<cellVars, asmVars, gcsVars, bfunVars, jacVars, boxVars, cloneVars, subVars, ctrVars>>

ChainSetFamily ==
  /\ chainRet = NoChainCall
  /\ \E name \in FamilyNames \cup {"P1L2"} :
       chainSet' = [chainSet EXCEPT !.topology = setFamily_(chainSet.topology, name)]
  /\ UNCHANGED <<chainRet, NotChain>>

CallExtrudedGCellSetConstructor ==
  /\ chainRet = NoChainCall
  /\ chainRet' = ExtrudedConstructorCall(chainSet)
  /\ UNCHANGED <<chainSet, NotChain>>

CallBoundaryGCellSetConstructor ==
  /\ chainRet = NoChainCall
  /\ chainRet' = BoundaryConstructorCall(chainSet)
  /\ UNCHANGED <<chainSet, NotChain>>

NextChain ==
  \/ ChainSetFamily
  \/ CallExtrudedGCellSetConstructor
  \/ CallBoundaryGCellSetConstructor

SpecChain == InitChain /\ [][NextChain]_vars

(***************************************************************************)
(* Specification of boxSelect: a set of curve elements over nodes in the   *)
(* plane, a node set, a box and one call.                                  *)
(***************************************************************************)
\* The nodes of the connectivity lists drawn.
BoxNodes == 0..SetMax(NodesOf(ShiftedCell(TypeCellSize("L2"))))

\* The nodes lie on the line y = 1, each at an x of 0..MaxCoord.
BoxFens ==
  {FeNodeSet([k \in 1..Cardinality(BoxNodes) |-> <<xs[k], 1>>]) :
     xs \in [1..Cardinality(BoxNodes) -> 0..MaxCoord]}

\* [xmin, xmax, ymin, ymax]: any bounds in x; in y the line of the nodes,
\* or bounds that miss it by one.
BoxBoundsDrawn ==
  {<<xmin, xmax>> \o yb : xmin \in 0..MaxCoord, xmax \in 0..MaxCoord,
                          yb \in {<<1, 1>>, <<2, 1>>}}

\* options.inflate: absent, the string '1', or the number 1.
InflateOptions == {<<FALSE, 0>>, <<FALSE, 1>>, <<TRUE, 1>>}

AnyOptions == {"undefined", "true", "false"}

InitBox ==
  /\ IdleCtr
  /\ IdleSub
  /\ IdleCell
  /\ IdleAsm
  /\ IdleGcs
  /\ IdleBfun
  /\ IdleJac
  /\ IdleChain
  /\ IdleClone
  /\ \E cells \in MeshLists(TypeCellSize("L2")) :
       boxSet = NewGCellSet("L2", Options(TRUE, cells, UndefinedTopology,
                                          "undefined", "undefined")).obj
  /\ boxBounds \in BoxBoundsDrawn
  /\ \/ /\ boxFens \in BoxFens
        /\ \E inflate \in InflateOptions, anyOption \in AnyOptions :
             boxOptions = BoxOptions(TRUE, inflate[1], inflate[2], anyOption)
     \/ /\ boxFens = NotAFeNodeSet
        /\ boxOptions = BoxOptions(TRUE, FALSE, 0, "undefined")
     \/ /\ boxFens \in BoxFens
        /\ boxOptions \in {NotAnObject, BoxOptions(FALSE, FALSE, 0, "undefined")}
  /\ boxRet = NoBoxCall

NotBox == <<cellVars, asmVars, gcsVars, bfunVars, jacVars, chainVars, cloneVars, subVars, ctrVars>>

CallBoxSelect ==
  /\ boxRet = NoBoxCall
  /\ LET r == boxSelect(boxSet, boxFens, boxOptions, boxBounds)
     IN /\ boxRet' = BoxCall(boxBounds, r)
        /\ boxBounds' = r.boundsAfter
  /\ UNCHANGED <<boxSet, boxFens, boxOptions, NotBox>>

NextBox == CallBoxSelect

SpecBox == InitBox /\ [][NextBox]_vars

(***************************************************************************)
(* Specification of clone and equals: one set of any type, its clone, and  *)
(* then clone.equals(g), or a change of the clone's Topology.              *)
(***************************************************************************)
InitClone ==
  /\ IdleCtr
  /\ IdleSub
  /\ IdleCell
  /\ IdleAsm
  /\ IdleGcs
  /\ IdleBfun
  /\ IdleJac
  /\ IdleChain
  /\ IdleBox
  /\ \E T \in Types, ax \in AxisSymmOptions, od \in OtherDimensionOptions :
       /\ \E cells \in MeshLists(TypeCellSize(T)) :
            cloneSet = NewGCellSet(T, Options(TRUE, cells, UndefinedTopology, ax, od)).obj
       /\ cloneFnKind \in IF OtherDimensionOf(od) = "function" THEN FnKinds ELSE {NoFn}
  /\ cloneMade = NoMade
  /\ cloneShares = FALSE
  /\ cloneOrig = UndefinedTopology
  /\ cloneEq = NoEquals

NotClone == <<cellVars, asmVars, gcsVars, bfunVars, jacVars, chainVars, boxVars, subVars, ctrVars>>

\* var c = g.clone()
CallCloneOf ==
  /\ cloneMade = NoMade
  /\ cloneMade' = clone(cloneSet)
  /\ cloneShares' = SharesTopologyAfterClone
  /\ cloneOrig' = cloneSet.topology
  /\ UNCHANGED <<cloneSet, cloneFnKind, cloneEq, NotClone>>

Cloned == cloneMade.op = "clone" /\ ~cloneMade.threw
FreshClone == Cloned /\ cloneMade.obj.topology = cloneOrig

\* c.equals(g)
CallEquals ==
  /\ FreshClone
  /\ cloneEq = NoEquals
  /\ cloneEq' = EqualsCall("clone", equals(cloneMade.obj, cloneSet, cloneFnKind, cloneFnKind))
  /\ UNCHANGED <<cloneSet, cloneFnKind, cloneMade, cloneShares, cloneOrig, NotClone>>

\* g.equals(other), for a value that is no set and for a set made anew, of
\* any type, from g's connectivity or another.
CallEqualsOther ==
  /\ cloneMade = NoMade
  /\ cloneEq = NoEquals
  /\ \/ cloneEq' = EqualsCall("other", equals(cloneSet, NotAGCellSet, cloneFnKind, NoFn))
     \/ \E T \in Types, ax \in AxisSymmOptions, od \in OtherDimensionOptions :
          \E cells \in MeshLists(TypeCellSize(T)) :
            \E otherFnKind \in IF OtherDimensionOf(od) = "function" THEN FnKinds ELSE {NoFn} :
              cloneEq' = EqualsCall("other",
                           equals(cloneSet,
                                  NewGCellSet(T, Options(TRUE, cells, UndefinedTopology, ax, od)).obj,
                                  cloneFnKind, otherFnKind))
  /\ UNCHANGED <<cloneSet, cloneFnKind, cloneMade, cloneShares, cloneOrig, NotClone>>

\* The Topology of the clone is changed to t; g sees the change when it
\* holds the same object.
ChangeCloneTopology(t) ==
  /\ cloneMade' = [cloneMade EXCEPT !.obj.topology = t]
  /\ cloneSet' = IF cloneShares THEN [cloneSet EXCEPT !.topology = t] ELSE cloneSet
  /\ UNCHANGED <<cloneFnKind, cloneShares, cloneOrig, cloneEq, NotClone>>

\* c.conn()[0][0] = node
WriteCloneConn ==
  /\ FreshClone
  /\ Len(cloneMade.obj.topology.cells) > 0
  /\ \E node \in 0..MaxNode :
       ChangeCloneTopology(WriteNode(cloneMade.obj.topology, node))

\* c.setFamily_(name)
CloneSetFamily ==
  /\ FreshClone
  /\ \E name \in FamilyNames :
       ChangeCloneTopology(setFamily_(cloneMade.obj.topology, name))

NextClone == CallCloneOf \/ CallEquals \/ CallEqualsOther \/ WriteCloneConn \/ CloneSetFamily

SpecClone == InitClone /\ [][NextClone]_vars

(***************************************************************************)
(* Specification of subset: one set of any type, one call of subset with   *)
(* indices of its cells, and then a write into a cell of the result.       *)
(***************************************************************************)
InitSub ==
  /\ IdleCtr
  /\ IdleCell
  /\ IdleAsm
  /\ IdleGcs
  /\ IdleBfun
  /\ IdleJac
  /\ IdleChain
  /\ IdleBox
  /\ IdleClone
  /\ \E T \in Types, ax \in AxisSymmOptions, od \in OtherDimensionOptions :
       \E cells \in MeshLists(TypeCellSize(T)) :
         subSet = NewGCellSet(T, Options(TRUE, cells, UndefinedTopology, ax, od)).obj
  /\ subIndices = <<>>
  /\ subMade = NoMade
  /\ subShares = FALSE
  /\ subOrig = UndefinedTopology

NotSub == <<cellVars, asmVars, gcsVars, bfunVars, jacVars, chainVars, boxVars, cloneVars, ctrVars>>

\* var s = g.subset(indices)
CallSubsetOf ==
  /\ subMade = NoMade
  /\ \E indices \in SeqsUpTo(0..(Len(getMaxCells(subSet.topology)) - 1), MaxIndices) :
       /\ subIndices' = indices
       /\ subMade' = subset(subSet, indices)
  /\ subShares' = SharesCellsAfterSubset
  /\ subOrig' = subSet.topology
  /\ UNCHANGED <<subSet, NotSub>>

Subsetted == subMade.op = "subset" /\ ~subMade.threw
FreshSubset == Subsetted /\ subMade.obj.topology.cells = subMade.options.conn

\* s.conn()[0][0] = node; the receiver sees the write when the cell is its
\* own array.
WriteSubsetConn ==
  /\ FreshSubset
  /\ Len(subMade.obj.topology.cells) > 0
  /\ \E node \in 0..MaxNode :
       /\ subMade' = [subMade EXCEPT !.obj.topology = WriteNode(@, node)]
       /\ subSet' = IF subShares
                    THEN [subSet EXCEPT !.topology.cells[subIndices[1] + 1][1] = node]
                    ELSE subSet
  /\ UNCHANGED <<subIndices, subShares, subOrig, NotSub>>

NextSub == CallSubsetOf \/ WriteSubsetConn

SpecSub == InitSub /\ [][NextSub]_vars

(***************************************************************************)
(* Specification of the contracts: _env is set, a contract is made by      *)
(* ensureVectorOfDimension or ensureMatrixOfDimension, _env is set again,  *)
(* and the contract is called any number of times.                         *)
(***************************************************************************)
Envs == {"dev", "production"}

Dimensions == {Star} \cup {Dimension(k) : k \in 1..MaxLen}

\* Vectors of numbers of every length, vectors with an entry that is no
\* number, and a value that is no array.
VectorInputs ==
  {Vector(FALSE, 0, 0)} \cup
  {Vector(TRUE, len, 0) : len \in 0..MaxLen} \cup
  {Vector(TRUE, len, 1) : len \in 1..MaxLen}

\* Matrices of numbers of every size, a value that is no array, a matrix
\* with a row that is no array, one with an entry that is no number, and
\* one whose second row is longer than its first.
MatrixInputs ==
  {Matrix(FALSE, <<>>)} \cup
  {Matrix(TRUE, [i \in 1..rows |-> Vector(TRUE, cols, 0)]) :
     rows \in 0..MaxLen, cols \in 0..MaxLen} \cup
  {Matrix(TRUE, <<Vector(FALSE, 0, 0)>>),
   Matrix(TRUE, <<Vector(TRUE, 1, 1)>>),
   Matrix(TRUE, <<Vector(TRUE, 1, 0), Vector(TRUE, MaxLen, 0)>>)}

InitCtr ==
  /\ IdleCell
  /\ IdleAsm
  /\ IdleGcs
  /\ IdleBfun
  /\ IdleJac
  /\ IdleChain
  /\ IdleBox
  /\ IdleClone
  /\ IdleSub
  /\ env = "dev"
  /\ ctr = NoContract
  /\ ctrRet = NoContractCall

NotCtr == <<cellVars, asmVars, gcsVars, bfunVars, jacVars, chainVars, boxVars, cloneVars, subVars>>

\* _._env = e
SetEnv ==
  /\ \E e \in Envs : env' = e
  /\ UNCHANGED <<ctr, ctrRet, NotCtr>>

\* var contract = ensureVectorOfDimension(n)
MakeVectorContract ==
  /\ ctr = NoContract
  /\ \E n \in Dimensions : ctr' = ensureVectorOfDimension(n, env)
  /\ UNCHANGED <<env, ctrRet, NotCtr>>

\* var contract = ensureMatrixOfDimension(m, n)
MakeMatrixContract ==
  /\ ctr = NoContract
  /\ \E m \in Dimensions, n \in Dimensions : ctr' = ensureMatrixOfDimension(m, n, env)
  /\ UNCHANGED <<env, ctrRet, NotCtr>>

\* contract(input)
InvokeContract ==
  /\ ctr # NoContract
  /\ \E input \in IF ctr.what = "vector" THEN VectorInputs ELSE MatrixInputs :
       LET r == CallContract(ctr, input, env)
       IN /\ ctrRet' = [called |-> TRUE, input |-> input, threw |-> r.threw,
                        mBefore |-> ctr.m, nBefore |-> ctr.n, envAt |-> env]
          /\ ctr' = [ctr EXCEPT !.m = r.m, !.n = r.n]
  /\ UNCHANGED <<env, NotCtr>>

NextCtr == SetEnv \/ MakeVectorContract \/ MakeMatrixContract \/ InvokeContract

SpecCtr == InitCtr /\ [][NextCtr]_vars







(***************************************************************************)
(* Claims about canonicalisation, checked under SpecCell.                  *)
(***************************************************************************)
\* The smallest entry of a non-empty cell.
CellMin(c) == CHOOSE m \in {c[k] : k \in 1..Len(c)} : \A k \in 1..Len(c) : m <= c[k]

\* The positions (1-based) at which the smallest entry occurs.
MinPositions(c) == IF Len(c) = 0 THEN {} ELSE {k \in 1..Len(c) : c[k] = CellMin(c)}

\* The cell and its rotation have both been normalized.
BothNormalized == normCell # NoCell /\ normRot # NoCell

\* C6 as stated: for every cell and every rotation offset, the normalized
\* rotated cell equals the normalized cell.
C6_RotationInvariantAnyCell == BothNormalized => normRot = normCell

\* C6 amended: for every cell whose smallest entry occurs at most once and
\* every rotation offset, the normalized rotated cell equals the normalized cell.
C6_RotationInvariantUniqueMin ==
  (BothNormalized /\ Cardinality(MinPositions(cell)) <= 1) => normRot = normCell

\* A cell of three or more nodes with a single smallest entry was rotated by
\* an offset that really moves it, and both normal forms were computed.
C6_Witness ==
  /\ BothNormalized
  /\ Len(cell) >= 3
  /\ Cardinality(MinPositions(cell)) = 1
  /\ rotated # cell
  /\ normCell # cell
  /\ normRot = normCell

\* C7: normalizing a normalized cell gives the same cell again.
C7_Idempotent == normTwice # NoCell => normTwice = normCell

\* A cell with a repeated smallest entry, not in normal form already, was
\* normalized twice.
C7_Witness ==
  /\ normTwice # NoCell
  /\ Cardinality(MinPositions(cell)) >= 2
  /\ normCell # cell
  /\ normTwice = normCell

\* C8: normalizedCell(c) has the length of c, starts with the smallest entry of
\* c and is c rotated left by the position k of that entry (the first one when
\* it is repeated): result[j] = c[(k + j) mod len]; c itself never changes.
C8_RotationByMinPosition ==
  /\ [](normCell # NoCell =>
         /\ Len(normCell) = Len(cell)
         /\ Len(cell) > 0 =>
              LET k == (CHOOSE p \in MinPositions(cell) :
                          \A q \in MinPositions(cell) : p <= q) - 1
                  len == Len(cell)
              IN /\ normCell[1] = CellMin(cell)
                 /\ \A j \in 0..(len - 1) : normCell[j + 1] = cell[((k + j) % len) + 1])
  /\ [][cell' = cell]_vars

\* A cell of three or more nodes whose smallest entry is not in front was
\* normalized.
C8_Witness ==
  /\ normCell # NoCell
  /\ Len(cell) >= 3
  /\ cell[1] # CellMin(cell)
  /\ normCell[1] = CellMin(cell)
  /\ normCell # cell

(***************************************************************************)
(* Claims about assembly, checked under SpecAsm.                           *)
(***************************************************************************)
\* The values one ElementVector sends to the global position p (0-based), in
\* the order of its local indices.
RECURSIVE LocalContributions(_, _, _)
LocalContributions(ev, p, k) ==
  IF k > Len(ev.eqnums.items) THEN <<>>
  ELSE (IF ev.eqnums.items[k] = p + 1 THEN <<ev.vector.items[k]>> ELSE <<>>)
       \o LocalContributions(ev, p, k + 1)

\* The values a list of well-formed ElementVectors sends to the global
\* position p, in the order of the list.
RECURSIVE Contributions(_, _)
Contributions(items, p) ==
  IF Len(items) = 0 THEN <<>>
  ELSE LocalContributions(Head(items), p, 1) \o Contributions(Tail(items), p)

\* The sum of a sequence of numbers, added up from the left starting at 0.
RECURSIVE SumFrom(_, _)
SumFrom(sofar, values) ==
  IF Len(values) = 0 THEN sofar
  ELSE SumFrom(NumAdd(sofar, Head(values)), Tail(values))

AllWellFormed == \A k \in 1..Len(evs.items) : IsWellFormed(evs.items[k])

\* toFull() has returned a sequence to the caller.
ToFullReturned == ret.op = "toFull" /\ ~ret.threw

\* C1: for a source of well-formed ElementVectors, toFull() returns dim
\* entries, the entry at position p being the sum of the vector[i] with
\* eqnums[i] = p+1 over all ElementVectors (0 where there is none), and
\* entries with equation number 0 going nowhere.
C1_ScatterAdd ==
  (ret.op = "toFull" /\ AllWellFormed /\ evs.kind # "other") =>
    /\ ~ret.threw
    /\ Len(ret.full) = dim
    /\ \A p \in 0..(dim - 1) :
         ret.full[p + 1] = SumFrom(Zero, Contributions(evs.items, p))

\* The first call on an instance over an iterator was toFull(); one position
\* received two contributions, one entry had equation number 0 and one
\* position received nothing.
C1_Witness ==
  /\ ToFullReturned /\ calls = 1 /\ AllWellFormed /\ evs.kind = "iterator"
  /\ \E p \in 0..(dim - 1) : Len(Contributions(evs.items, p)) >= 2
                              /\ ret.full[p + 1] = Num(0, 2)
  /\ \E p \in 0..(dim - 1) : Len(Contributions(evs.items, p)) = 0
                              /\ ret.full[p + 1] = Zero
  /\ \E k \in 1..Len(evs.items) : \E i \in 1..Len(evs.items[k].eqnums.items) :
       evs.items[k].eqnums.items[i] = 0

\* C2: once the cache is set, every call returns that very vector and neither
\* hasNext() nor next() is called, nor a vector built, again; a call that
\* returns while the cache is unset sets it, and the cache never changes after.
C2_Memoized ==
  [][/\ sparseVector # NullVector =>
          /\ sparseVector' = sparseVector
          /\ nexts' = nexts /\ hasNexts' = hasNexts /\ allocs' = allocs
          /\ ~ret'.threw /\ ret'.sv = sparseVector
     /\ (sparseVector = NullVector /\ ~ret'.threw) =>
          /\ sparseVector' # NullVector
          /\ ret'.assembled /\ ret'.sv = sparseVector']_vars

\* A later call on an instance over an iterator that had been drained was
\* answered from the cache.
C2_Witness ==
  /\ calls >= 2 /\ evs.kind = "iterator" /\ nexts >= 2
  /\ sparseVector # NullVector
  /\ ret.op # "none" /\ ~ret.assembled /\ ret.sv = sparseVector

\* What assembling the whole list, from its first ElementVector on, gives.
WholeRun(id) == Assemble(id, dim, [kind |-> "array", items |-> evs.items, pos |-> 0])

\* C3: whatever is cached or returned is the fold over all ElementVectors of
\* the source, also after calls that threw partway through an iterator.
C3_NoPartialAssembly ==
  /\ sparseVector # NullVector =>
       (~WholeRun(sparseVector.id).threw /\ WholeRun(sparseVector.id).dest = sparseVector)
  /\ (ret.op # "none" /\ ~ret.threw) =>
       (~WholeRun(ret.sv.id).threw /\ WholeRun(ret.sv.id).dest = ret.sv)

ListOrders(n) == {f \in [1..n -> 1..n] : \A i, j \in 1..n : i # j => f[i] # f[j]}
Permuted(items, f) == [k \in 1..Len(items) |-> items[f[k]]]

\* toFull() on a new SparseSystemVector over the array items.
ToFullOfArray(items) ==
  SparseToFull(Assemble(1, dim, [kind |-> "array", items |-> items, pos |-> 0]).dest)

\* Every entry of every ElementVector is an integer far below 2^53, so that
\* all the sums are exact.
AllSumsExact ==
  \A k \in 1..Len(evs.items) : \A i \in 1..Len(evs.items[k].vector.items) :
    evs.items[k].vector.items[i].big = 0

\* C4 as stated: for any list of ElementVectors, every permutation of the list
\* assembles to the same toFull() result.
C4_OrderIndependentAnyValues ==
  (ToFullReturned /\ AllWellFormed) =>
    \A f \in ListOrders(Len(evs.items)) :
      ToFullOfArray(Permuted(evs.items, f)) = ret.full

\* C4 amended: for any list of ElementVectors whose entries are integers
\* small enough for every sum to be exact, every permutation of the list
\* assembles to the same toFull() result.
C4_OrderIndependentExactSums ==
  (ToFullReturned /\ AllWellFormed /\ AllSumsExact) =>
    \A f \in ListOrders(Len(evs.items)) :
      ToFullOfArray(Permuted(evs.items, f)) = ret.full

\* Two different ElementVectors that both send different values to position 0
\* were assembled.
C4_Witness ==
  /\ ToFullReturned /\ AllWellFormed /\ AllSumsExact
  /\ Len(evs.items) = 2 /\ evs.items[1] # evs.items[2]
  /\ Contributions(<<evs.items[1]>>, 0) = <<Num(0, 1)>>
  /\ Contributions(<<evs.items[2]>>, 0) = <<Num(0, 2)>>
  /\ ret.full[1] = Num(0, 3)

\* C5: a source that is neither array nor iterator, or that holds an
\* ElementVector which is not well formed, makes the call throw before
\* anything was added to the global vector.
C5_EagerRejection ==
  (ret.assembled /\ calls = 1 /\ (evs.kind = "other" \/ ~AllWellFormed)) =>
    (ret.threw /\ ret.acc = 0)

(***************************************************************************)
(* Claims on the GCellSet constructors                                     *)
(***************************************************************************)
\* The Topology has the cell size and the dimension of the element type T.
Conforms(topo, T) ==
  /\ topo.kind = "Topology"
  /\ getCellSizeInDim(topo, getDim(topo)) = TypeCellSize(T)
  /\ getDim(topo) = TypeDim(T)

Unassigned(obj) == obj.id # "uuid" /\ obj.topology.kind # "Topology"

\* C9: every set that exists (the caller's, and the one a constructor, clone,
\* subset, extrude or boundary has just returned) holds a Topology whose cell
\* size is cellSize() and whose dimension is dim(); and a constructor handed
\* a Topology that breaks either equality throws and leaves the id and the
\* topology of the object unassigned.
C9_TopologyMatchesType ==
  /\ gcs # NoSet => Conforms(gcs.topology, gcs.type)
  /\ (made.op # "none" /\ ~made.threw) =>
       /\ made.obj.id = "uuid"
       /\ Conforms(made.obj.topology, made.obj.type)
  /\ ( /\ made.op = "new"
       /\ ~made.options.hasConn
       /\ made.options.topology.kind = "Topology"
       /\ ~Conforms(made.options.topology, made.obj.type) ) =>
       made.threw /\ Unassigned(made.obj)

\* The part of C9 on the sets as they are returned: a set that a
\* constructor, clone, subset, extrude or boundary returns holds, when it is
\* returned, a Topology whose cell size is cellSize() and whose dimension is
\* dim(); and a constructor handed a Topology that breaks either equality
\* throws and leaves the id and the topology of the object unassigned.
C9_ConformsWhenReturned ==
  [][(made = NoMade /\ made' # NoMade) =>
       /\ ~made'.threw =>
            /\ made'.obj.id = "uuid"
            /\ Conforms(made'.obj.topology, made'.obj.type)
       /\ ( /\ made'.op = "new"
            /\ ~made'.options.hasConn
            /\ made'.options.topology.kind = "Topology"
            /\ ~Conforms(made'.options.topology, made'.obj.type) ) =>
            made'.threw /\ Unassigned(made'.obj)]_vars

\* A set whose Topology was given the label of another family by
\* setFamily_: the cell size of the label is no longer cellSize().
C9_Relabelled ==
  /\ gcs # NoSet
  /\ gcs.id = "uuid"
  /\ getDim(gcs.topology) = TypeDim(gcs.type)
  /\ getCellSizeInDim(gcs.topology, getDim(gcs.topology)) # TypeCellSize(gcs.type)

\* The caller works on a set that extrude or boundary produced, and a
\* constructor of another type has just rejected the Topology of that set.
C9_Witness ==
  /\ kept
  /\ Conforms(gcs.topology, gcs.type)
  /\ made.op = "new"
  /\ made.options.topology = gcs.topology
  /\ made.obj.type # gcs.type
  /\ made.threw
  /\ Unassigned(made.obj)

(***************************************************************************)
(* Claims on the shape functions                                           *)
(***************************************************************************)
Evaluated == bfunVal # NotEvaluated

RECURSIVE ColumnSumFrom(_, _, _)
ColumnSumFrom(sofar, column, k) ==
  IF k > Len(column) THEN sofar
  ELSE ColumnSumFrom(NumAdd(sofar, column[k][1]), column, k + 1)

\* The entries of a column added up from the first to the last.
ColumnSum(column) == ColumnSumFrom(Zero, column, 1)

IsColumnOfCellSize ==
  /\ Len(bfunVal) = TypeCellSize(elemType)
  /\ \A k \in 1..Len(bfunVal) : Len(bfunVal[k]) = 1

OnGrid == \A i \in 1..Len(point) : point[i] \in GridCoords

AtOrigin == \A i \in 1..Len(point) : point[i] = Zero

\* 1 / cellSize(): 1, 0.5, 0.25, 0.125
EqualShare(T) == Dyadic(0, 1, TypeDim(T))

\* C10 as stated: at every parametric point bfun is a column of cellSize()
\* entries whose sum is exactly 1.
C10_PartitionOfUnityAnyPoint ==
  Evaluated => IsColumnOfCellSize /\ ColumnSum(bfunVal) = One

\* C10 where the arithmetic is exact: at every parametric point of the
\* reference element whose coordinates are multiples of 1 / 2^GridBits,
\* bfun is a column of cellSize() entries whose sum is exactly 1, and at the
\* origin every entry is 1 / cellSize().
C10_PartitionOfUnityOnGrid ==
  (Evaluated /\ OnGrid) =>
    /\ IsColumnOfCellSize
    /\ ColumnSum(bfunVal) = One
    /\ AtOrigin => \A k \in 1..Len(bfunVal) : bfunVal[k][1] = EqualShare(elemType)

\* H8 evaluated at (1/2, -1/4, 0): eight entries, not all equal, of sum 1.
C10_Witness ==
  /\ elemType = "H8"
  /\ point = <<Dyadic(0, 1, 1), Dyadic(0, -1, 2), Zero>>
  /\ Evaluated
  /\ bfunVal[1][1] = Dyadic(0, 5, 6)
  /\ bfunVal[2][1] # bfunVal[1][1]
  /\ ColumnSum(bfunVal) = One

(***************************************************************************)
(* Claims on the derivatives of the shape functions                        *)
(***************************************************************************)
DerEvaluated == bfundparVal # NotEvaluated

\* a + b as real numbers, without the rounding of a double.
ExactAdd(a, b) ==
  IF a.nan \/ b.nan THEN NaN
  ELSE LET e == IF a.exp >= b.exp THEN a.exp ELSE b.exp
           fa == Pow2(e - a.exp)
           fb == Pow2(e - b.exp)
       IN Dyadic(a.big * fa + b.big * fb, a.small * fa + b.small * fb, e)

RECURSIVE ExactSumFrom(_, _, _, _)
ExactSumFrom(sofar, m, j, i) ==
  IF i > Len(m) THEN sofar
  ELSE ExactSumFrom(ExactAdd(sofar, m[i][j]), m, j, i + 1)

\* The sum over all rows i of m[i][j], as a real number.
ExactColumnSum(m, j) == ExactSumFrom(Zero, m, j, 1)

IsCellSizeByDim(m, T) ==
  /\ Len(m) = TypeCellSize(T)
  /\ \A i \in 1..Len(m) : Len(m[i]) = TypeDim(T)

ColumnsSumToZero(m) ==
  \A j \in 1..Len(m[1]) : ExactColumnSum(m, j) = Zero

\* C11: bfundpar(p) is a cellSize() by dim() matrix, and for each parametric
\* axis j the entries of column j add up to 0.
C11_DerivativeColumnsSumToZero ==
  DerEvaluated =>
    /\ IsCellSizeByDim(bfundparVal, elemType)
    /\ ColumnsSumToZero(bfundparVal)

(***************************************************************************)
(* Claims about the Jacobians.                                             *)
(***************************************************************************)
Manifold(g) == TypeDim(g.type)
Rows(J) == Len(J)
Cols(J) == Len(J[1])
Outcome(r) == [threw |-> r.threw, error |-> r.error, value |-> r.value]
AskedInDim == jacRet.op = "jacobianInDim"

\* The targets the claim gives for a set of manifold dimension m.
AcceptedTargets(m) == (IF m = 0 THEN 1 ELSE m)..3

\* What the specific Jacobian of target dimension k does on the same
\* arguments.
SpecificJacobian(k) ==
  CASE k = 1 -> jacobianCurve(jacSet, jacJ, jacFnValue, jacRet.lib)
    [] k = 2 -> jacobianSurface(jacSet, jacJ, jacFnValue, jacRet.lib)
    [] OTHER -> jacobianVolumn(jacSet, jacJ, jacFnValue, jacRet.lib)

\* C12: jacobianInDim of a manifold-0 or manifold-1 set accepts the targets
\* 1, 2 and 3, of a manifold-2 set 2 and 3, of a manifold-3 set only 3, and
\* does what the Jacobian of that target dimension does; for every other
\* target it throws an Error of its own.
C12_InDimAcceptsItsTargets ==
  AskedInDim =>
    IF jacRet.target.isNumber /\ jacRet.target.n \in AcceptedTargets(Manifold(jacSet))
    THEN Outcome(jacRet) = SpecificJacobian(jacRet.target.n)
    ELSE Outcome(jacRet) = Throws("Error")

\* A manifold-2 set asked for target 2 and answering with a number, and a
\* manifold-2 set asked for target 1.
C12_Witness ==
  /\ AskedInDim
  /\ Manifold(jacSet) = 2
  /\ jacRet.target = Target(TRUE, 1)
  /\ jacRet.threw

C12_WitnessAccepted ==
  /\ AskedInDim
  /\ Manifold(jacSet) = 2
  /\ jacRet.target = Target(TRUE, 2)
  /\ ~jacRet.threw

AskedVolumn3 == jacRet.op = "jacobianVolumn" /\ Manifold(jacSet) = 3

\* C13: jacobianVolumn of a manifold-3 set throws when J has not exactly 3
\* columns, and returns det(J) when J has 3 columns.
C13_VolumnNeedsThreeColumns ==
  AskedVolumn3 =>
    IF Cols(jacJ) = 3
    THEN Outcome(jacRet) = Returns(<<DetOfJ>>)
    ELSE jacRet.threw

AskedSurface2 == jacRet.op = "jacobianSurface" /\ Manifold(jacSet) = 2

\* C14: jacobianSurface of a manifold-2 set, for a J of 2 columns, returns
\* J[0][0]*J[1][1] - J[1][0]*J[0][1] when J is 2 by 2 and takes the branch of
\* the norm of the cross product for any other number of rows; for a J of
\* any other number of columns it throws an Error of its own.
C14_SurfaceNeedsTwoColumns ==
  AskedSurface2 =>
    IF Cols(jacJ) = 2
    THEN IF Rows(jacJ) = 2
         THEN Outcome(jacRet) =
                Returns(<<NumFactor(NumSub(NumMul(jacJ[1][1], jacJ[2][2]),
                                           NumMul(jacJ[2][1], jacJ[1][2])))>>)
         ELSE Outcome(jacRet) \in {Returns(<<NormOfCross>>), Throws("skewmat")}
    ELSE Outcome(jacRet) = Throws("Error")

\* A 2 by 2 matrix whose entries above and below the diagonal differ.
C14_Witness ==
  /\ AskedSurface2
  /\ Rows(jacJ) = 2 /\ Cols(jacJ) = 2
  /\ jacJ[1][2] # jacJ[2][1]
  /\ ~jacRet.threw

C14_WitnessCross ==
  /\ AskedSurface2
  /\ Rows(jacJ) = 3 /\ Cols(jacJ) = 2
  /\ jacRet.value = <<NormOfCross>>

AskedCurve0 == jacRet.op = "jacobianCurve" /\ Manifold(jacSet) = 0

\* C15: jacobianCurve of a manifold-0 set that is not axially symmetric
\* returns 1, whatever the otherDimension of the set.
C15_CurveOfPointIsOne ==
  (AskedCurve0 /\ ~axisSymm(jacSet)) => Outcome(jacRet) = Returns(<<NumFactor(One)>>)

(***************************************************************************)
(* Claims about the resolution of the neighbouring element types.          *)
(***************************************************************************)
AskedExtruded == chainRet.op = "extrudedGCellSetConstructor"
AskedBoundary == chainRet.op = "boundaryGCellSetConstructor"
ChainOf(g) == FamilyCellTypes(g.topology.family)
PositionsIn(chain, T) == {i \in 1..Len(chain) : chain[i] = T}

\* C16: extrudedGCellSetConstructor() throws for a type that is the last of
\* the chain of the set's family or is not in the chain, and otherwise
\* returns the constructor of the type one step up the chain, which is an
\* element constructor and never undefined (in family P1L2Q4H8: L2 for P1,
\* Q4 for L2, H8 for Q4).
C16_ExtrudedIsNextInChain ==
  AskedExtruded =>
    LET chain == ChainOf(chainSet)
        at == PositionsIn(chain, chainSet.type)
    IN IF at = {} \/ Len(chain) \in at
       THEN chainRet.threw
       ELSE /\ ~chainRet.threw
            /\ \E i \in at : chainRet.value = chain[i + 1]
            /\ chainRet.value \in Types

\* C17: boundaryGCellSetConstructor() returns Q4 for H8, L2 for Q4 and P1
\* for L2, and throws for P1.
C17_BoundaryIsPreviousInChain ==
  AskedBoundary =>
    CASE chainSet.type = "H8" -> ~chainRet.threw /\ chainRet.value = "Q4"
      [] chainSet.type = "Q4" -> ~chainRet.threw /\ chainRet.value = "L2"
      [] chainSet.type = "L2" -> ~chainRet.threw /\ chainRet.value = "P1"
      [] OTHER -> chainRet.threw

(***************************************************************************)
(* Claims about boxSelect.                                                 *)
(***************************************************************************)
Selected == boxRet.op = "boxSelect"
ValidBoxCall == boxFens.isFeNodeSet /\ boxOptions.isObject /\ boxOptions.boundsIsArray
BoxCells == getMaxCells(boxSet.topology)
Inside(node, box) ==
  /\ box[1] <= xyzAt(boxFens, node)[1] /\ xyzAt(boxFens, node)[1] <= box[2]
  /\ box[3] <= xyzAt(boxFens, node)[2] /\ xyzAt(boxFens, node)[2] <= box[4]

\* The indices of the cells all of whose nodes, or one of whose nodes, are
\* inside the box.
CellsWithin(box, anyFlag) ==
  {i \in 0..(Len(BoxCells) - 1) :
     IF anyFlag THEN \E node \in NodesOf(BoxCells[i + 1]) : Inside(node, box)
     ELSE \A node \in NodesOf(BoxCells[i + 1]) : Inside(node, box)}

\* s lists exactly the members of S, in increasing order, each once.
ListsInOrder(s, S) ==
  /\ {s[k] : k \in 1..Len(s)} = S
  /\ \A k \in 1..(Len(s) - 1) : s[k] < s[k + 1]

\* C18: boxSelect(fens, {bounds}) returns the indices, from 0, increasing and
\* without repetition, of the cells all of whose nodes are inside the box,
\* and with any = true of the cells one of whose nodes is inside the box; a
\* fens that is no FeNodeSet or options without an array bounds make it
\* throw and select nothing.
C18_BoxSelectIndices ==
  (Selected /\ ~boxOptions.inflateIsNumber) =>
    IF ValidBoxCall
    THEN /\ ~boxRet.threw
         /\ ListsInOrder(boxRet.value, CellsWithin(boxRet.given, boxOptions.any = "true"))
    ELSE boxRet.threw /\ boxRet.value = <<>>

\* Two cells and the default any: the first has a node outside the box, the
\* second is selected.
C18_Witness ==
  /\ Selected /\ ValidBoxCall
  /\ ~boxOptions.inflateIsNumber
  /\ boxOptions.any = "undefined"
  /\ boxRet.value = <<1>>
  /\ CellsWithin(boxRet.given, TRUE) = {0, 1}

\* The box of the claim: lower bounds (even positions, from 0) less inflate,
\* upper bounds (odd positions) plus inflate.
ClaimedBox(box, inflate) ==
  <<box[1] - inflate, box[2] + inflate, box[3] - inflate, box[4] + inflate>>

\* C19: with a numeric inflate the box tested is bounds with every lower
\* bound decreased and every upper bound increased by inflate; without one
\* the box is tested as given; the array bounds of the caller is left as it
\* was.
C19_BoxSelectInflate ==
  (Selected /\ ValidBoxCall) =>
    /\ boxBounds = boxRet.given
    /\ ListsInOrder(boxRet.value,
         CellsWithin(IF boxOptions.inflateIsNumber
                     THEN ClaimedBox(boxRet.given, boxOptions.inflate)
                     ELSE boxRet.given,
                     boxOptions.any = "true"))

\* A cell that is selected in the inflated box and is outside the box given.
C19_Witness ==
  /\ Selected /\ ValidBoxCall
  /\ boxOptions.inflateIsNumber
  /\ boxRet.value # <<>>
  /\ CellsWithin(boxRet.given, TRUE) = {}
  /\ boxBounds = boxRet.given

(***************************************************************************)
(* Claims about clone and equals.                                          *)
(***************************************************************************)
\* C20: g.clone().equals(g) is true for every set g of type P1, L2, Q4 or
\* H8, whatever its axisSymm and whether its otherDimension is a number or a
\* function; and the clone holds a Topology of its own: a change of the
\* clone's connectivity leaves the connectivity of g as it was.
C20_CloneEqualsAndOwnsTopology ==
  /\ cloneEq.with = "clone" => cloneEq.value = "true"
  /\ Cloned => ~cloneShares /\ cloneSet.topology = cloneOrig

\* The same, for the sets whose otherDimension is a number and for those
\* whose otherDimension function returns the same number at every call.
C20_CloneEqualsForNumbers ==
  /\ (cloneEq.with = "clone" /\ cloneFnKind.kind \in {"none", "constant"}) =>
       cloneEq.value = "true"
  /\ Cloned => ~cloneShares /\ cloneSet.topology = cloneOrig

C20_WitnessChanged ==
  /\ Cloned
  /\ cloneMade.obj.topology.cells # cloneOrig.cells
  /\ cloneSet.topology = cloneOrig

(***************************************************************************)
(* Claims about subset.                                                    *)
(***************************************************************************)
\* C21: subset(indices), for indices of cells of the receiver in any order
\* and with repeats, returns a new set of the receiver's type whose
\* connectivity is conn[indices[0]], conn[indices[1]], ... in this order, in
\* cells that are copies; the connectivity of the receiver is afterwards
\* what it was, also after a write into a cell of the result.
C21_SubsetSelectsCopies ==
  subMade.op = "subset" =>
    /\ ~subMade.threw
    /\ subMade.obj.type = subSet.type
    /\ subMade.obj.id = "uuid"
    /\ Len(subMade.options.conn) = Len(subIndices)
    /\ \A k \in 1..Len(subIndices) :
         subMade.options.conn[k] = subOrig.cells[subIndices[k] + 1]
    /\ FreshSubset => getMaxCells(subMade.obj.topology) = subMade.options.conn
    /\ ~subShares
    /\ subSet.topology = subOrig

\* A subset that takes the second cell before the first and the first one
\* twice, and whose first cell has been written since.
C21_Witness ==
  /\ Subsetted
  /\ subIndices = <<1, 0, 0>>
  /\ subOrig.cells[1] # subOrig.cells[2]
  /\ subMade.obj.topology.cells # subMade.options.conn
  /\ subSet.topology = subOrig

(***************************************************************************)
(* Claims about the contracts.                                             *)
(***************************************************************************)
\* Whether the check of the contract, run on the input of the last call
\* with the variables as they were before the call, throws.
CheckThrew == RunCheck(ctr.what, ctrRet.input, ctrRet.mBefore, ctrRet.nBefore).threw

\* C22: a contract made while _env was 'dev' throws exactly when its check
\* throws, and a contract made while _env had another value never throws,
\* whatever _env is at the time of the call.
C22_EnforcementFixedAtDefinition ==
  ctrRet.called =>
    IF ctr.madeIn = "dev" THEN ctrRet.threw = CheckThrew ELSE ~ctrRet.threw

\* A contract made in 'dev' that throws after _env was set to another
\* value.
C22_Witness ==
  /\ ctrRet.called
  /\ ctr.madeIn = "dev"
  /\ ctrRet.envAt # "dev"
  /\ ctrRet.threw

\* Whether a contract made anew with the dimensions this one was made with
\* throws on the input of the last call.
ThrowsWhenNew ==
  /\ ctr.fn = "wrapper"
  /\ RunCheck(ctr.what, ctrRet.input, ctr.m0, ctr.n0).threw

HasWildcard == ctr.n0.star \/ (ctr.what = "matrix" /\ ctr.m0.star)

\* A contract made in 'dev' with a wildcard, called twice: the first call
\* has put a size in the place of the wildcard.
C24_CalledTwice ==
  /\ ctrRet.called
  /\ ctr.fn = "wrapper"
  /\ \/ ctr.n0.star /\ ~ctrRet.nBefore.star
     \/ ctr.what = "matrix" /\ ctr.m0.star /\ ~ctrRet.mBefore.star

\* C24: a contract made with the wildcard '*' for a dimension accepts or
\* rejects an input as it would at its first call, whatever it was called
\* with before.
C24_WildcardContractStateless ==
  (ctrRet.called /\ HasWildcard) => ctrRet.threw = ThrowsWhenNew

(***************************************************************************)
(* Claims about the axisymmetric volume Jacobian.                          *)
(***************************************************************************)
\* How many factors of the product are of one of the kinds.
FactorCount(term, kinds) == Cardinality({i \in DOMAIN term : term[i].kind \in kinds})

VolumnOfAxisymm ==
  /\ jacRet.op = "jacobianVolumn"
  /\ ~jacRet.threw
  /\ axisSymm(jacSet)
  /\ Manifold(jacSet) \in 0..2

\* C23: the product that jacobianVolumn returns for an axisymmetric set of
\* manifold dimension 0, 1 or 2 holds the factor 2*pi*r once: Math.PI once
\* and the interpolated coordinate r once.
C23_AxisymmFactorOnce ==
  VolumnOfAxisymm =>
    /\ FactorCount(jacRet.value, {PI.kind}) = 1
    /\ FactorCount(jacRet.value, {XyzByDot.kind, XyzByMul.kind}) = 1

\* The same for manifold dimension 1 and 2 alone.
C23_AxisymmFactorOnceAbove0 ==
  (VolumnOfAxisymm /\ Manifold(jacSet) \in 1..2) =>
    /\ FactorCount(jacRet.value, {PI.kind}) = 1
    /\ FactorCount(jacRet.value, {XyzByDot.kind, XyzByMul.kind}) = 1

(***************************************************************************)
(* Claims about the attributes of derived sets.                            *)
(***************************************************************************)
Attributes(g) == <<g.axisSymm, g.otherDimension>>

\* The defaults of the constructor: axisSymm false, otherDimension 1.0.
DefaultAttributes == <<"false", "1">>

\* A step that calls clone, subset, extrude or boundary on the set.
Derives == made = NoMade /\ made'.op \in {"clone", "subset", "extrude", "boundary"}

\* C25: clone, subset and extrude return a set with the axisSymm and the
\* otherDimension of the receiver, boundary returns a set with axisSymm
\* false and otherDimension 1.0, and none of them changes the attributes of
\* the receiver.
C25_DerivedKeepAttributes ==
  [][Derives =>
       /\ Attributes(gcs') = Attributes(gcs)
       /\ ~made'.threw =>
            Attributes(made'.obj) =
              IF made'.op = "boundary" THEN DefaultAttributes ELSE Attributes(gcs)]_vars

\* An axisymmetric set with a function for otherDimension that came out of
\* extrude, and its boundary, with the defaults.
C25_Witness ==
  /\ kept
  /\ Attributes(gcs) = <<"true", "function">>
  /\ made.op = "boundary"
  /\ ~made.threw
  /\ Attributes(made.obj) = DefaultAttributes

(***************************************************************************)
(* Claims on the values of the shape functions at the nodes.               *)
(***************************************************************************)
\* The parametric coordinates of the nodes of the reference elements, in
\* the order of the nodes: the ends of the interval, the corners of the
\* square counterclockwise, the corners of the cube bottom face first.
ReferenceSigns(T) ==
  CASE T = "L2" -> << <<-1>>, <<1>> >>
    [] T = "Q4" -> << <<-1, -1>>, <<1, -1>>, <<1, 1>>, <<-1, 1>> >>
    [] T = "H8" -> << <<-1, -1, -1>>, <<1, -1, -1>>, <<1, 1, -1>>, <<-1, 1, -1>>,
                      <<-1, -1, 1>>, <<1, -1, 1>>, <<1, 1, 1>>, <<-1, 1, 1>> >>
    [] OTHER -> <<>>

ReferenceNode(T, j) == [i \in 1..TypeDim(T) |-> Num(0, ReferenceSigns(T)[j][i])]

\* The node of the element at which bfun was evaluated, 0 when the point is
\* no node.
NodeAtPoint ==
  IF \E j \in 1..Len(ReferenceSigns(elemType)) : ReferenceNode(elemType, j) = point
  THEN CHOOSE j \in 1..Len(ReferenceSigns(elemType)) : ReferenceNode(elemType, j) = point
  ELSE 0

\* C26: for L2, Q4 and H8, bfun evaluated at reference node j is a column
\* of cellSize() entries with 1 in entry j and 0 in every other entry.
C26_InterpolatoryAtNodes ==
  (Evaluated /\ elemType \in {"L2", "Q4", "H8"} /\ NodeAtPoint # 0) =>
    /\ Len(bfunVal) = TypeCellSize(elemType)
    /\ \A k \in 1..Len(bfunVal) :
         bfunVal[k] = <<IF k = NodeAtPoint THEN One ELSE Zero>>

\* Q4 evaluated at its fourth node (-1, 1).
C26_Witness ==
  /\ Evaluated
  /\ elemType = "Q4"
  /\ point = <<Num(0, -1), Num(0, 1)>>
  /\ NodeAtPoint = 4
  /\ bfunVal = << <<Zero>>, <<Zero>>, <<Zero>>, <<One>> >>

====
